---- MODULE Spec2Model ----
(***************************************************************************)
(* State-machine model of the data layer of gempy/core/data.py: Series,    *)
(* Faults, Formations, Interfaces, Orientations, GridClass, RescaledData,  *)
(* Structure and AdditionalData.  A pandas DataFrame is a sequence of row  *)
(* records; the row label is the field "index".  A categorical index is    *)
(* its sequence of values plus its sequence of categories.  Booleans held  *)
(* in a column that can also hold NaN are the integers 0 and 1.  Floats    *)
(* are exact fractions; gradient components are signed square roots.       *)
(***************************************************************************)
EXTENDS Integers, Sequences, FiniteSets, TLC

VARIABLES
    series_df,            \* Series.df: rows [index, order_series, BottomRelation]
    series_categories,    \* Series.df.index.categories
    faults_df,            \* Faults.df: rows [index, isFault]
    faults_categories,    \* Faults.df.index.categories
    faults_relations_df,  \* Faults.faults_relations_df: [index, index_categories,
                          \*   columns, columns_categories, values]
    n_faults,             \* Faults.n_faults
    formations_df,        \* Formations.df: rows [index, formation, series, id, isBasement]
    formation_categories, \* Formations.df['formation'].cat.categories
    formations_series_categories,  \* Formations.df['series'].cat.categories
    interfaces_df,        \* Interfaces.df: rows [index, X, Y, Z, X_r, Y_r, Z_r, surface,
                          \*   series, id, order_series]
    orientations_df,      \* Orientations.df: the columns of Interfaces.df and G_x, G_y,
                          \*   G_z, dip, azimuth, polarity
    structure,            \* the arrays of Structure: [len_formations_i, len_series_i,
                          \*   len_series_o, ref_position, nfs]
    rescaling_factor,     \* RescaledData.rescaling_factor (NaN on empty tables)
    centers,              \* RescaledData.centers: <<X, Y, Z>>
    grid,                 \* GridClass: [extent, resolution, values, extent_r, values_r]
    n_universal_eq,       \* AdditionalData.n_universal_eq
    returned,             \* what the last accessor call handed to its caller
    solution,             \* Solution: [scalar_field_at_interfaces, scalar_field_lith,
                          \*   scalar_field_faults, vertices, edges]
    err                   \* outcome of the last call: "ok" or the exception raised

seriesVars == <<series_df, series_categories, faults_df, faults_categories,
                faults_relations_df, n_faults>>

formationsVars == <<formations_df, formation_categories, formations_series_categories>>

dataVars == <<interfaces_df, orientations_df, structure>>

additionalVars == <<rescaling_factor, centers, grid, n_universal_eq, returned, solution>>

vars == <<seriesVars, formationsVars, dataVars, additionalVars, err>>

-----------------------------------------------------------------------------
(* Bounds *)
MaxSeries == 3
MaxList == 2
MaxFormations == 2
MaxLabel == 3
MaxPoints == 2
MaxPointLabel == 2

\* the largest number of cells of a grid along one axis
MaxResolution == 3

-----------------------------------------------------------------------------
(* Values *)
NaN == -1
NaNLabel == "nan"
DefaultSeries == "Default series"

\* the series names used as inputs, in lexicographic order
SeriesNameOrder == <<"A", "B", "B2", "C", "Default series", "fault">>

\* the formation names used as inputs, in lexicographic order
FormationNameOrder == <<"a", "b", "basement", "c">>

-----------------------------------------------------------------------------
(* Numbers *)

\* A float is held exactly, as the fraction n/d in lowest terms with d > 0.
\* The floats that are no number have d = 0: 0/0 is NaN, 1/0 is inf and
\* -1/0 is -inf.
Frac(n, d) == [n |-> n, d |-> d]

NaNFrac == Frac(0, 0)

IsNaNFrac(q) == q.d = 0 /\ q.n = 0

Abs(n) == IF n < 0 THEN -n ELSE n

Sign(n) == IF n < 0 THEN -1 ELSE IF n > 0 THEN 1 ELSE 0

RECURSIVE Gcd(_, _)
Gcd(a, b) == IF b = 0 THEN a ELSE Gcd(b, a % b)

\* n/d in lowest terms; a division by zero gives NaN or a signed infinity
Norm(n, d) ==
    IF d = 0 THEN Frac(Sign(n), 0)
    ELSE LET g == Gcd(Abs(n), Abs(d))
         IN  Frac((Sign(d) * n) \div g, Abs(d) \div g)

FracOf(n) == Frac(n, 1)

FracAdd(p, q) ==
    IF p.d = 0 /\ q.d = 0 THEN (IF p.n = q.n THEN p ELSE NaNFrac)
    ELSE IF p.d = 0 THEN p
    ELSE IF q.d = 0 THEN q
    ELSE Norm(p.n * q.d + q.n * p.d, p.d * q.d)

FracNeg(p) == Frac(-p.n, p.d)

FracSub(p, q) == FracAdd(p, FracNeg(q))

FracMul(p, q) ==
    IF p.d = 0 \/ q.d = 0 THEN Frac(Sign(p.n) * Sign(q.n), 0)
    ELSE Norm(p.n * q.n, p.d * q.d)

FracDiv(p, q) ==
    IF IsNaNFrac(p) \/ IsNaNFrac(q) THEN NaNFrac
    ELSE IF p.d = 0 THEN (IF q.d = 0 THEN NaNFrac
                          ELSE Frac(p.n * (IF q.n < 0 THEN -1 ELSE 1), 0))
    ELSE IF q.d = 0 THEN FracOf(0)
    ELSE Norm(p.n * q.d, p.d * q.n)

\* p < q as floats compare: never true of NaN
FracLt(p, q) ==
    IF IsNaNFrac(p) \/ IsNaNFrac(q) THEN FALSE
    ELSE IF p.d = 0 THEN p.n < 0 /\ ~(q.d = 0 /\ q.n < 0)
    ELSE IF q.d = 0 THEN q.n > 0
    ELSE p.n * q.d < q.n * p.d

-----------------------------------------------------------------------------
(* Sequence helpers *)
Range(s) == {s[i] : i \in DOMAIN s}

IsUnique(s) == \A i, j \in DOMAIN s : s[i] = s[j] => i = j

Contains(s, x) == \E i \in DOMAIN s : s[i] = x

PosOf(s, x) == CHOOSE i \in DOMAIN s : s[i] = x

RECURSIVE SeqsOver(_, _)
SeqsOver(S, n) ==
    IF n = 0 THEN {<<>>}
    ELSE LET shorter == SeqsOver(S, n - 1)
         IN  shorter \cup {Append(s, x) : s \in {t \in shorter : Len(t) = n - 1}, x \in S}

UniqueSeqs(S, n) == {s \in SeqsOver(S, n) : IsUnique(s)}

\* the elements of s sorted by the rank function rk (stable)
RECURSIVE SortBy(_, _)
SortBy(s, rk) ==
    IF Len(s) = 0 THEN <<>>
    ELSE LET i == CHOOSE k \in DOMAIN s :
                      \A j \in DOMAIN s : rk[k] < rk[j] \/ (rk[k] = rk[j] /\ k <= j)
             rest == [j \in 1..(Len(s) - 1) |-> IF j < i THEN s[j] ELSE s[j + 1]]
             rkr  == [j \in 1..(Len(s) - 1) |-> IF j < i THEN rk[j] ELSE rk[j + 1]]
         IN  <<s[i]>> \o SortBy(rest, rkr)

-----------------------------------------------------------------------------
(* DataFrame helpers *)
Index(df) == [i \in DOMAIN df |-> df[i].index]

\* df.index = idx: relabels the rows by position
SetIndex(df, idx) == [i \in DOMAIN df |-> [df[i] EXCEPT !.index = idx[i]]]

\* df.drop(labels): the rows whose label is not dropped
DropRows(df, labels) == SelectSeq(df, LAMBDA r : r.index \notin labels)

\* pn.CategoricalIndex(values): the categories are the sorted unique values
InferCategories(values) ==
    SelectSeq(SeriesNameOrder, LAMBDA c : c \in Range(values))

-----------------------------------------------------------------------------
(* The tables that a method of Series touches, threaded through the        *)
(* statements of the method.  A statement runs only while no exception has *)
(* been raised; what the earlier statements did stays done.                *)
Tables ==
    [series_df |-> series_df, series_categories |-> series_categories,
     faults_df |-> faults_df, faults_categories |-> faults_categories,
     faults_relations_df |-> faults_relations_df, err |-> "ok"]

Raise(t, e) == [t EXCEPT !.err = e]

Then(t, F(_)) == IF t.err = "ok" THEN F(t) ELSE t

\* self.df.index = idx
AssignSeriesIndex(t, idx, cats) ==
    IF Len(idx) # Len(t.series_df) THEN Raise(t, "ValueError")
    ELSE [t EXCEPT !.series_df = SetIndex(t.series_df, idx), !.series_categories = cats]

\* self.faults.df.index = idx
AssignFaultsIndex(t, idx, cats) ==
    IF Len(idx) # Len(t.faults_df) THEN Raise(t, "ValueError")
    ELSE [t EXCEPT !.faults_df = SetIndex(t.faults_df, idx), !.faults_categories = cats]

\* self.faults.faults_relations_df.index = idx
AssignRelationsIndex(t, idx, cats) ==
    IF Len(idx) # Len(t.faults_relations_df.index) THEN Raise(t, "ValueError")
    ELSE [t EXCEPT !.faults_relations_df.index = idx,
                   !.faults_relations_df.index_categories = cats]

\* self.faults.faults_relations_df.columns = idx
AssignRelationsColumns(t, idx, cats) ==
    IF Len(idx) # Len(t.faults_relations_df.columns) THEN Raise(t, "ValueError")
    ELSE [t EXCEPT !.faults_relations_df.columns = idx,
                   !.faults_relations_df.columns_categories = cats]

\* the four assignments that every method of Series ends with
AssignAll(t, idx, cats) ==
    LET t1 == AssignSeriesIndex(t, idx, cats)
        t2 == Then(t1, LAMBDA u : AssignFaultsIndex(u, idx, cats))
        t3 == Then(t2, LAMBDA u : AssignRelationsIndex(u, idx, cats))
    IN  Then(t3, LAMBDA u : AssignRelationsColumns(u, idx, cats))

\* self.df.loc[c] = np.nan
SeriesLocSetNaN(t, c) ==
    IF Contains(Index(t.series_df), c)
    THEN [t EXCEPT !.series_df =
            [i \in DOMAIN @ |-> IF @[i].index = c
                                THEN [index |-> c, order_series |-> NaN, BottomRelation |-> NaN]
                                ELSE @[i]]]
    ELSE IF ~Contains(t.series_categories, c) THEN Raise(t, "TypeError")
    ELSE [t EXCEPT !.series_df =
            Append(@, [index |-> c, order_series |-> NaN, BottomRelation |-> NaN])]

\* self.faults.df.loc[c, 'isFault'] = np.nan
FaultsLocSetNaN(t, c) ==
    IF Contains(Index(t.faults_df), c)
    THEN [t EXCEPT !.faults_df =
            [i \in DOMAIN @ |-> IF @[i].index = c THEN [@[i] EXCEPT !.isFault = NaN] ELSE @[i]]]
    ELSE IF ~Contains(t.faults_categories, c) THEN Raise(t, "TypeError")
    ELSE [t EXCEPT !.faults_df = Append(@, [index |-> c, isFault |-> NaN])]

\* relations.loc[c, c] = np.nan on a frame: a missing row and a missing
\* column are added, filled with NaN, and the cell (c, c) is set to NaN
RelationsEnlarge(rel, c) ==
    LET addRow == ~Contains(rel.index, c)
        addCol == ~Contains(rel.columns, c)
        index   == IF addRow THEN Append(rel.index, c) ELSE rel.index
        columns == IF addCol THEN Append(rel.columns, c) ELSE rel.columns
        r == PosOf(index, c)
        k == PosOf(columns, c)
    IN  [rel EXCEPT
           !.index = index,
           !.columns = columns,
           !.values = [i \in DOMAIN index |-> [j \in DOMAIN columns |->
                         IF i > Len(rel.index) \/ j > Len(rel.columns) THEN NaN
                         ELSE IF i = r /\ j = k THEN NaN
                         ELSE rel.values[i][j]]]]

\* self.faults.faults_relations_df.loc[c, c] = np.nan
RelationsLocSetNaN(t, c) ==
    IF  \/ ~Contains(t.faults_relations_df.index, c)
           /\ ~Contains(t.faults_relations_df.index_categories, c)
        \/ ~Contains(t.faults_relations_df.columns, c)
           /\ ~Contains(t.faults_relations_df.columns_categories, c)
    THEN Raise(t, "TypeError")
    ELSE [t EXCEPT !.faults_relations_df = RelationsEnlarge(@, c)]

\* for c in series_list: the three .loc assignments
RECURSIVE EnlargeAll(_, _)
EnlargeAll(t, list) ==
    IF Len(list) = 0 \/ t.err # "ok" THEN t
    ELSE LET t1 == SeriesLocSetNaN(t, Head(list))
             t2 == Then(t1, LAMBDA u : FaultsLocSetNaN(u, Head(list)))
             t3 == Then(t2, LAMBDA u : RelationsLocSetNaN(u, Head(list)))
         IN  EnlargeAll(t3, Tail(list))

\* Series.update_order_series
OrderSeriesColumn(df) == [i \in DOMAIN df |-> [df[i] EXCEPT !.order_series = i]]

update_order_series(t) == [t EXCEPT !.series_df = OrderSeriesColumn(@)]

-----------------------------------------------------------------------------
(* Operations on a categorical index *)

\* CategoricalIndex.rename_categories / set_categories(rename=True): the
\* codes are kept, a code beyond the new categories becomes NaN
RecodeValues(values, cats, new_cats) ==
    [i \in DOMAIN values |->
        IF ~Contains(cats, values[i]) THEN NaNLabel
        ELSE IF PosOf(cats, values[i]) <= Len(new_cats)
             THEN new_cats[PosOf(cats, values[i])]
             ELSE NaNLabel]

\* CategoricalIndex.sort_values: by code, the NaN code (-1) first
SortValues(values, cats) ==
    SortBy(values, [i \in DOMAIN values |->
                       IF Contains(cats, values[i]) THEN PosOf(cats, values[i]) ELSE 0])

\* CategoricalIndex.remove_unused_categories
UsedCategories(values, cats) == SelectSeq(cats, LAMBDA c : Contains(values, c))

\* rename_categories(new_categories): a list renames by position, a dict
\* [old |-> .., new |-> ..] renames the categories it names
RenamedCategories(cats, new_categories) ==
    IF new_categories.kind = "list" THEN new_categories.names
    ELSE [i \in DOMAIN cats |->
            IF cats[i] = new_categories.old THEN new_categories.new ELSE cats[i]]

-----------------------------------------------------------------------------
(* Series *)

Commit(t) ==
    /\ series_df' = t.series_df
    /\ series_categories' = t.series_categories
    /\ faults_df' = t.faults_df
    /\ faults_categories' = t.faults_categories
    /\ faults_relations_df' = t.faults_relations_df
    /\ err' = t.err

\* series_list[~np.in1d(series_list, self.df.index.categories)]
NotYetCategories(series_list, cats) ==
    SelectSeq(series_list, LAMBDA c : ~Contains(cats, c))

AddSeriesTables(t, series_list) ==
    LET new  == NotYetCategories(series_list, t.series_categories)
        idx  == Index(t.series_df)
        cats == t.series_categories \o new
    IN  IF ~IsUnique(new) THEN Raise(t, "ValueError")
        ELSE LET t1 == AssignAll(t, idx, cats)
                 t2 == Then(t1, LAMBDA u : EnlargeAll(u, new))
             IN  Then(t2, update_order_series)

add_series(series_list) ==
    /\ Len(series_df) + Len(NotYetCategories(series_list, series_categories)) <= MaxSeries
    /\ Len(series_categories \o NotYetCategories(series_list, series_categories)) <= MaxSeries
    /\ Commit(AddSeriesTables(Tables, series_list))
    /\ UNCHANGED <<n_faults, formationsVars, dataVars, additionalVars>>

\* DropRelations without the drop along axis=1
DropRelationsRowsOnly(rel, indices) ==
    LET keepR == SelectSeq([i \in DOMAIN rel.index |-> i],
                           LAMBDA i : rel.index[i] \notin indices)
    IN  [rel EXCEPT
           !.index = [i \in DOMAIN keepR |-> rel.index[keepR[i]]],
           !.values = [i \in DOMAIN keepR |-> rel.values[keepR[i]]]]

\* relations.drop(indices, axis=0) and relations.drop(indices, axis=1)
DropRelations(rel, indices) ==
    LET keepR == SelectSeq([i \in DOMAIN rel.index |-> i],
                           LAMBDA i : rel.index[i] \notin indices)
        keepC == SelectSeq([j \in DOMAIN rel.columns |-> j],
                           LAMBDA j : rel.columns[j] \notin indices)
    IN  [rel EXCEPT
           !.index = [i \in DOMAIN keepR |-> rel.index[keepR[i]]],
           !.columns = [j \in DOMAIN keepC |-> rel.columns[keepC[j]]],
           !.values = [i \in DOMAIN keepR |-> [j \in DOMAIN keepC |->
                          rel.values[keepR[i]][keepC[j]]]]]

DeleteSeriesTables(t, indices) ==
    LET t1 == IF indices \subseteq Range(Index(t.series_df))
              THEN [t EXCEPT !.series_df = DropRows(@, indices)]
              ELSE Raise(t, "KeyError")
        t2 == Then(t1, LAMBDA u :
                 IF indices \subseteq Range(Index(u.faults_df))
                 THEN [u EXCEPT !.faults_df = DropRows(@, indices)]
                 ELSE Raise(u, "KeyError"))
        t3 == Then(t2, LAMBDA u :
                 IF  /\ indices \subseteq Range(u.faults_relations_df.index)
                     /\ indices \subseteq Range(u.faults_relations_df.columns)
                 THEN [u EXCEPT !.faults_relations_df = DropRelations(@, indices)]
                 ELSE Raise(u, "KeyError"))
    IN  Then(t3, LAMBDA u :
            AssignAll(u, Index(u.series_df),
                      UsedCategories(Index(u.series_df), u.series_categories)))

delete_series(indices) ==
    /\ Commit(DeleteSeriesTables(Tables, indices))
    /\ UNCHANGED <<n_faults, formationsVars, dataVars, additionalVars>>

RenameSeriesTables(t, new_categories) ==
    LET cats == RenamedCategories(t.series_categories, new_categories)
    IN  IF Len(cats) # Len(t.series_categories) \/ ~IsUnique(cats)
        THEN Raise(t, "ValueError")
        ELSE AssignAll(t, RecodeValues(Index(t.series_df), t.series_categories, cats), cats)

rename_series(new_categories) ==
    /\ Commit(RenameSeriesTables(Tables, new_categories))
    /\ UNCHANGED <<n_faults, formationsVars, dataVars, additionalVars>>

ReorderSeriesTables(t, new_categories) ==
    IF  \/ Len(new_categories) # Len(t.series_categories)
        \/ Range(new_categories) # Range(t.series_categories)
    THEN Raise(t, "ValueError")
    ELSE AssignAll(t, SortValues(Index(t.series_df), new_categories), new_categories)

reorder_series(new_categories) ==
    /\ Commit(ReorderSeriesTables(Tables, new_categories))
    /\ UNCHANGED <<n_faults, formationsVars, dataVars, additionalVars>>

\* the four index.set_categories(series_idx, rename=True)
SetCategoriesAll(t, series_idx) ==
    [t EXCEPT
       !.series_df = SetIndex(@, RecodeValues(Index(@), t.series_categories, series_idx)),
       !.series_categories = series_idx,
       !.faults_df = SetIndex(@, RecodeValues(Index(@), t.faults_categories, series_idx)),
       !.faults_categories = series_idx,
       !.faults_relations_df =
           [@ EXCEPT !.index = RecodeValues(@, t.faults_relations_df.index_categories,
                                            series_idx),
                     !.index_categories = series_idx,
                     !.columns = RecodeValues(@, t.faults_relations_df.columns_categories,
                                              series_idx),
                     !.columns_categories = series_idx]]

SetSeriesIndexTables(t, series_order) ==
    IF ~IsUnique(series_order) THEN Raise(t, "ValueError")
    ELSE LET t1 == SetCategoriesAll(t, series_order)
             t2 == EnlargeAll(t1, series_order)
         IN  Then(t2, update_order_series)

set_series_index(series_order) ==
    /\ Len(SetSeriesIndexTables(Tables, series_order).series_df) <= MaxSeries
    /\ Len(SetSeriesIndexTables(Tables, series_order).faults_df) <= MaxSeries
    /\ Commit(SetSeriesIndexTables(Tables, series_order))
    /\ UNCHANGED <<n_faults, formationsVars, dataVars, additionalVars>>

-----------------------------------------------------------------------------
(* Faults *)

\* the series_fault argument: None or a list of series names
NoSeriesFault == [kind |-> "None"]

SeriesFault(names) == [kind |-> "list", names |-> names]

\* Faults.count_faults: the names that hold 'fault' or 'Fault' and not 'Default'
count_faults(list_of_names) == {c \in Range(list_of_names) : c \in {"fault"}}

\* Faults.set_is_fault on the table fdf, with n_faults = count before the call:
\* df['isFault'] = df.index.isin(series_fault); n_faults = df['isFault'].sum()
SetIsFault(fdf, count, series_fault) ==
    LET names == IF series_fault.kind = "None" THEN count_faults(Index(fdf))
                 ELSE series_fault.names
        df == [i \in DOMAIN fdf |->
                 [fdf[i] EXCEPT !.isFault = IF fdf[i].index \in names THEN 1 ELSE 0]]
    IN  [df |-> df, n_faults |-> Cardinality({i \in DOMAIN df : df[i].isFault = 1})]

set_is_fault(series_fault) ==
    LET r == SetIsFault(faults_df, n_faults, series_fault)
    IN  /\ faults_df' = r.df
        /\ n_faults' = r.n_faults
        /\ err' = "ok"
        /\ UNCHANGED <<series_df, series_categories, faults_categories, faults_relations_df,
                       formationsVars, dataVars, additionalVars>>

\* the rel_matrix argument: None, a 2D numpy array, or a list of lists
NoMatrix == [kind |-> "None"]

NdArray(rows) == [kind |-> "ndarray", rows |-> rows]

ListOfLists(rows) == [kind |-> "list", rows |-> rows]

\* pn.DataFrame(rel_matrix, index=df.index, columns=df.index, dtype='bool')
RelationsFrame(rows, idx, cats) ==
    [index |-> idx, index_categories |-> cats, columns |-> idx, columns_categories |-> cats,
     values |-> [i \in DOMAIN rows |-> [j \in DOMAIN rows[i] |->
                    IF rows[i][j] = 0 THEN 0 ELSE 1]]]

\* set_fault_relation without the check of the shape of rel_matrix
SetFaultRelationAnyShape(rel, idx, cats, rel_matrix) ==
    LET n == Len(idx)
    IN  IF rel_matrix.kind = "None"
        THEN [rel |-> RelationsFrame([i \in 1..n |-> [j \in 1..n |-> 0]], idx, cats),
              err |-> "ok"]
        ELSE IF rel_matrix.kind # "ndarray" THEN [rel |-> rel, err |-> "AssertionError"]
        ELSE [rel |-> RelationsFrame(rel_matrix.rows, idx, cats), err |-> "ok"]

\* Faults.set_fault_relation on the relation frame rel of a Faults whose df
\* has the index idx
SetFaultRelation(rel, idx, cats, rel_matrix) ==
    LET n == Len(idx)
    IN  IF rel_matrix.kind = "None"
        THEN [rel |-> RelationsFrame([i \in 1..n |-> [j \in 1..n |-> 0]], idx, cats),
              err |-> "ok"]
        ELSE IF rel_matrix.kind # "ndarray" THEN [rel |-> rel, err |-> "AssertionError"]
        ELSE IF  \/ Len(rel_matrix.rows) # n
                 \/ \E i \in DOMAIN rel_matrix.rows : Len(rel_matrix.rows[i]) # n
        THEN [rel |-> rel, err |-> "ValueError"]
        ELSE [rel |-> RelationsFrame(rel_matrix.rows, idx, cats), err |-> "ok"]

set_fault_relation(rel_matrix) ==
    LET r == SetFaultRelation(faults_relations_df, Index(faults_df), faults_categories,
                              rel_matrix)
    IN  /\ faults_relations_df' = r.rel
        /\ err' = r.err
        /\ UNCHANGED <<series_df, series_categories, faults_df, faults_categories, n_faults,
                       formationsVars, dataVars, additionalVars>>

-----------------------------------------------------------------------------
(* Formations *)

FormationsTables ==
    [df |-> formations_df, categories |-> formation_categories,
     series_categories |-> formations_series_categories, err |-> "ok"]

CommitFormations(f) ==
    /\ formations_df' = f.df
    /\ formation_categories' = f.categories
    /\ formations_series_categories' = f.series_categories
    /\ err' = f.err

FormationColumn(df) == [i \in DOMAIN df |-> df[i].formation]

\* pn.Categorical(list_names): the categories are the sorted unique values
InferFormationCategories(list_names) ==
    SelectSeq(FormationNameOrder, LAMBDA c : c \in Range(list_names))

\* Formations.set_id: df['id'] = df.index + 1
IdColumn(df) == [i \in DOMAIN df |-> [df[i] EXCEPT !.id = df[i].index + 1]]

set_id(f) == [f EXCEPT !.df = IdColumn(@)]

\* self.df['isBasement'].values.astype(bool).sum()
BasementCount(df) == Cardinality({i \in DOMAIN df : df[i].isBasement = 1})

\* self.df['isBasement'].fillna(False, inplace=True)
FillBasement(df) ==
    [i \in DOMAIN df |-> [df[i] EXCEPT !.isBasement = IF @ = NaN THEN 0 ELSE @]]

\* the formations flagged as basement: self.df['formation'][self.df['isBasement']]
BasementNames(df) == {df[i].formation : i \in {j \in DOMAIN df : df[j].isBasement = 1}}

\* set_basement: self.df['isBasement'] = self.df['formation'] == basement_formation
BasementColumn(df, basement_formation) ==
    LET filled == FillBasement(df)
        names  == IF basement_formation = "None" THEN BasementNames(filled)
                  ELSE {basement_formation}
    IN  [i \in DOMAIN filled |->
            [filled[i] EXCEPT !.isBasement = IF filled[i].formation \in names THEN 1 ELSE 0]]

SetBasement(f, basement_formation) ==
    LET g == [f EXCEPT !.df = BasementColumn(@, basement_formation)]
    IN  IF BasementCount(g.df) <= 1 THEN g ELSE Raise(g, "AssertionError")

\* Formations.map_series: mapping_object is [kind |-> "None"] or the dict
\* {series: formations} as [kind |-> "dict", series |-> .., formations |-> ..]
MapSeries(f, sidx, mapping_object) ==
    IF mapping_object.kind = "None" /\ Len(sidx) = 0 THEN Raise(f, "IndexError")
    ELSE IF ~IsUnique(sidx) \/ Contains(sidx, NaNLabel) THEN Raise(f, "ValueError")
    ELSE LET key   == IF mapping_object.kind = "None" THEN sidx[1]
                      ELSE mapping_object.series
             forms == IF mapping_object.kind = "None" THEN Range(FormationColumn(f.df))
                      ELSE mapping_object.formations
             value == IF Contains(sidx, key) THEN key ELSE NaNLabel
         IN  [f EXCEPT
                !.series_categories = sidx,
                !.df = [i \in DOMAIN f.df |->
                          [f.df[i] EXCEPT !.series =
                              IF f.df[i].formation \in forms THEN value
                              ELSE IF Contains(sidx, f.df[i].series) THEN f.df[i].series
                              ELSE NaNLabel]]]

\* self.df.loc[label, 'formation'] = c
LocSetFormation(df, label, c) ==
    IF Contains(Index(df), label)
    THEN [i \in DOMAIN df |-> IF df[i].index = label THEN [df[i] EXCEPT !.formation = c]
                              ELSE df[i]]
    ELSE Append(df, [index |-> label, formation |-> c, series |-> NaNLabel,
                     id |-> NaN, isBasement |-> NaN])

\* for c in formation_list: idx = self.df.last_valid_index() ...
RECURSIVE AppendFormations(_, _)
AppendFormations(df, list) ==
    IF Len(list) = 0 THEN df
    ELSE AppendFormations(
            LocSetFormation(df, IF Len(df) = 0 THEN 0 ELSE df[Len(df)].index + 1, Head(list)),
            Tail(list))

\* the tail shared by add_formation and set_formation_names_pro (update_df=True)
UpdateDf(f, sidx) ==
    LET f1 == MapSeries(f, sidx, [kind |-> "None"])
        f2 == Then(f1, set_id)
    IN  Then(f2, LAMBDA g : SetBasement(g, "None"))

AddFormationTables(f, sidx, formation_list) ==
    LET new == NotYetCategories(formation_list, f.categories)
    IN  IF ~IsUnique(new) THEN Raise(f, "ValueError")
        ELSE UpdateDf([f EXCEPT !.categories = @ \o new,
                                !.df = AppendFormations(@, new)], sidx)

DeleteFormationTables(f, indices) ==
    IF ~(indices \subseteq Range(Index(f.df))) THEN Raise(f, "KeyError")
    ELSE set_id([f EXCEPT !.df = DropRows(@, indices)])

\* sort_values(by=['series', 'formation']): by category code, NaN last
SortKey(f, r) ==
    (IF Contains(f.series_categories, r.series)
     THEN PosOf(f.series_categories, r.series) ELSE Len(f.series_categories) + 1)
    * (Len(f.categories) + 2)
    + (IF Contains(f.categories, r.formation)
       THEN PosOf(f.categories, r.formation) ELSE Len(f.categories) + 1)

SortFormationsTables(f) ==
    set_id([f EXCEPT !.df = SortBy(@, [i \in DOMAIN @ |-> SortKey(f, @[i])])])

\* the assertion of add_basement written with <= in place of <
NoBasementYetOffByOne(df) == BasementCount(df) <= 1

\* add_basement: assert self.df['isBasement'].values.astype(bool).sum() < 1
NoBasementYet(df) == BasementCount(df) < 1

AddBasementTables(f, name) ==
    LET filled == [f EXCEPT !.df = FillBasement(@)]
    IN  IF ~NoBasementYet(filled.df) THEN Raise(filled, "AssertionError")
        ELSE IF Contains(filled.categories, name) THEN Raise(filled, "ValueError")
        ELSE LET g == [filled EXCEPT !.categories = Append(@, name)]
             IN  IF Len(g.df) = 0 THEN Raise(g, "TypeError")
                 ELSE LET label == g.df[Len(g.df)].index + 1
                          rows  == LocSetFormation(g.df, label, name)
                      IN  set_id([g EXCEPT !.df =
                             [i \in DOMAIN rows |->
                                 IF rows[i].index = label
                                 THEN [rows[i] EXCEPT !.isBasement = 1]
                                 ELSE rows[i]]])

\* self.df['formation'] = pn.Categorical(list_names)
SetFormationColumn(f, list_names) ==
    IF Len(f.df) = 0
    THEN [f EXCEPT
            !.categories = InferFormationCategories(list_names),
            !.df = [i \in DOMAIN list_names |->
                      [index |-> i - 1, formation |-> list_names[i], series |-> NaNLabel,
                       id |-> NaN, isBasement |-> NaN]]]
    ELSE IF Len(list_names) # Len(f.df) THEN Raise(f, "ValueError")
    ELSE [f EXCEPT
            !.categories = InferFormationCategories(list_names),
            !.df = [i \in DOMAIN f.df |-> [f.df[i] EXCEPT !.formation = list_names[i]]]]

SetFormationNamesTables(f, sidx, list_names) ==
    Then(SetFormationColumn(f, list_names), LAMBDA g : UpdateDf(g, sidx))

add_formation(formation_list) ==
    /\ Len(AppendFormations(formations_df,
                            NotYetCategories(formation_list, formation_categories)))
          <= MaxFormations
    /\ \A i \in DOMAIN formations_df : formations_df[i].index < MaxLabel
    /\ CommitFormations(AddFormationTables(FormationsTables, Index(series_df), formation_list))
    /\ UNCHANGED <<seriesVars, dataVars, additionalVars>>

delete_formation(indices) ==
    /\ CommitFormations(DeleteFormationTables(FormationsTables, indices))
    /\ UNCHANGED <<seriesVars, dataVars, additionalVars>>

sort_formations ==
    /\ CommitFormations(SortFormationsTables(FormationsTables))
    /\ UNCHANGED <<seriesVars, dataVars, additionalVars>>

set_basement(basement_formation) ==
    /\ CommitFormations(SetBasement(FormationsTables, basement_formation))
    /\ UNCHANGED <<seriesVars, dataVars, additionalVars>>

add_basement(name) ==
    /\ Len(formations_df) < MaxFormations
    /\ \A i \in DOMAIN formations_df : formations_df[i].index < MaxLabel
    /\ CommitFormations(AddBasementTables(FormationsTables, name))
    /\ UNCHANGED <<seriesVars, dataVars, additionalVars>>

map_series(mapping_object) ==
    /\ CommitFormations(MapSeries(FormationsTables, Index(series_df), mapping_object))
    /\ UNCHANGED <<seriesVars, dataVars, additionalVars>>

set_formation_names_pro(list_names) ==
    /\ Len(list_names) <= MaxFormations
    /\ CommitFormations(SetFormationNamesTables(FormationsTables, Index(series_df), list_names))
    /\ UNCHANGED <<seriesVars, dataVars, additionalVars>>

-----------------------------------------------------------------------------
(* Interfaces and Orientations (class Data) *)

\* a new row: X, Y, Z as given, the rescaled columns NaN and, by
\* Data.set_dependent_properties, series, id and order_series NaN
NewRow(label, coord, surface) ==
    [index |-> label, surface |-> surface, series |-> NaNLabel, id |-> NaN,
     order_series |-> NaN, X |-> coord[1], Y |-> coord[2], Z |-> coord[3],
     X_r |-> NaNFrac, Y_r |-> NaNFrac, Z_r |-> NaNFrac]

\* set_interfaces / set_orientations: a fresh table labelled 0..m-1 of the
\* rows of coord; the surface column is the list as given
SetData(coord, surface) ==
    IF Len(coord) # Len(surface) THEN [df |-> <<>>, err |-> "ValueError"]
    ELSE [df |-> [i \in DOMAIN surface |-> NewRow(i - 1, coord[i], surface[i])],
          err |-> "ok"]

DataTable(obj) == IF obj = "interfaces" THEN interfaces_df ELSE orientations_df

\* r is the table and the outcome a call leaves: [df, err]
CommitData(obj, r) ==
    /\ interfaces_df' = IF obj = "interfaces" THEN r.df ELSE interfaces_df
    /\ orientations_df' = IF obj = "orientations" THEN r.df ELSE orientations_df
    /\ err' = r.err

set_interfaces(coord, surface) ==
    /\ Len(surface) <= MaxPoints
    /\ CommitData("interfaces", SetData(coord, surface))
    /\ UNCHANGED <<seriesVars, formationsVars, structure, additionalVars>>

\* add_interface(X, Y, Z, surface, idx=None): idx = last_valid_index() + 1,
\* which is None + 1 on an empty table
AddInterface(df, X, Y, Z, surface) ==
    IF Len(df) = 0 THEN [df |-> df, err |-> "TypeError"]
    ELSE [df |-> Append(df, NewRow(df[Len(df)].index + 1, <<X, Y, Z>>, surface)),
          err |-> "ok"]

add_interface(X, Y, Z, surface) ==
    /\ Len(interfaces_df) < MaxPoints
    /\ \A i \in DOMAIN interfaces_df : interfaces_df[i].index < MaxPointLabel
    /\ CommitData("interfaces", AddInterface(interfaces_df, X, Y, Z, surface))
    /\ UNCHANGED <<seriesVars, formationsVars, structure, additionalVars>>

\* del_interface(idx): self.df.drop(idx, inplace=True)
DelInterface(df, idx) ==
    IF ~Contains(Index(df), idx) THEN [df |-> df, err |-> "KeyError"]
    ELSE [df |-> DropRows(df, {idx}), err |-> "ok"]

del_interface(idx) ==
    /\ CommitData("interfaces", DelInterface(interfaces_df, idx))
    /\ UNCHANGED <<seriesVars, formationsVars, structure, additionalVars>>

\* modify_interface(idx, **kwargs): idx is the set of labels named, kwargs
\* gives each property one value, written to every row named.  The first
\* assert asks that every label of the table is among idx.
ModifyInterface(df, idx, kwargs) ==
    IF \E i \in DOMAIN df : df[i].index \notin idx
    THEN [df |-> df, err |-> "AssertionError"]
    ELSE IF ~(DOMAIN kwargs \subseteq {"X", "Y", "Z", "surface"})
    THEN [df |-> df, err |-> "AssertionError"]
    ELSE IF DOMAIN kwargs = {} THEN [df |-> df, err |-> "ValueError"]
    ELSE IF ~(idx \subseteq Range(Index(df))) THEN [df |-> df, err |-> "KeyError"]
    ELSE [df |-> [i \in DOMAIN df |->
                    [k \in DOMAIN df[i] |->
                        IF k \in DOMAIN kwargs THEN kwargs[k] ELSE df[i][k]]],
          err |-> "ok"]

modify_interface(idx, kwargs) ==
    /\ CommitData("interfaces", ModifyInterface(interfaces_df, idx, kwargs))
    /\ UNCHANGED <<seriesVars, formationsVars, structure, additionalVars>>

\* surface.map(formations.df.set_index('formation')[property]): the value of
\* the catalog row of that name, NaN for a name the catalog does not have
LookupFormation(fdf, surface, property) ==
    IF Contains(FormationColumn(fdf), surface)
    THEN LET r == fdf[PosOf(FormationColumn(fdf), surface)]
         IN  IF property = "series" THEN r.series ELSE r.id
    ELSE IF property = "series" THEN NaNLabel ELSE NaN

MapDataFromFormations(df, fdf, property) ==
    IF property = "series" /\ \E i \in DOMAIN fdf : fdf[i].isBasement = NaN
    THEN [df |-> df, err |-> "TypeError"]
    ELSE IF property = "series"
            /\ \E i \in DOMAIN fdf : fdf[i].isBasement = 0 /\ fdf[i].series = NaNLabel
    THEN [df |-> df, err |-> "AttributeError"]
    ELSE IF ~IsUnique(FormationColumn(fdf)) THEN [df |-> df, err |-> "InvalidIndexError"]
    ELSE [df |-> [i \in DOMAIN df |->
                    IF property = "series"
                    THEN [df[i] EXCEPT !.series = LookupFormation(fdf, df[i].surface, property)]
                    ELSE [df[i] EXCEPT !.id = LookupFormation(fdf, df[i].surface, property)]],
          err |-> "ok"]

map_data_from_formations(obj, property) ==
    /\ CommitData(obj, MapDataFromFormations(DataTable(obj), formations_df, property))
    /\ UNCHANGED <<seriesVars, formationsVars, structure, additionalVars>>

\* self.df['series'].map(series.df['order_series'])
MapDataFromSeries(df, sdf) ==
    IF ~IsUnique(Index(sdf)) THEN [df |-> df, err |-> "InvalidIndexError"]
    ELSE [df |-> [i \in DOMAIN df |->
                    [df[i] EXCEPT !.order_series =
                        IF Contains(Index(sdf), df[i].series)
                        THEN sdf[PosOf(Index(sdf), df[i].series)].order_series
                        ELSE NaN]],
          err |-> "ok"]

map_data_from_series(obj) ==
    /\ CommitData(obj, MapDataFromSeries(DataTable(obj), series_df))
    /\ UNCHANGED <<seriesVars, formationsVars, structure, additionalVars>>

\* sort_values(by=['order_series', 'id'], kind='mergesort'): stable, NaN last
SortRank(df) ==
    LET top == MaxLabel + MaxSeries + 2
        last(v) == IF v = NaN THEN top ELSE v
    IN  [i \in DOMAIN df |-> last(df[i].order_series) * (top + 1) + last(df[i].id)]

SortTable(df) == SortBy(df, SortRank(df))

sort_table(obj) ==
    /\ CommitData(obj, [df |-> SortTable(DataTable(obj)), err |-> "ok"])
    /\ UNCHANGED <<seriesVars, formationsVars, structure, additionalVars>>

-----------------------------------------------------------------------------
(* Orientations: gradient and orientation angles *)

\* A gradient component is held as s * sqrt(q) + e * 1e-12: the sign s, the
\* fraction q (its square) and the offset e in units of 1e-12, which is below
\* every tolerance and only tells values that are zero otherwise apart.  The
\* trigonometric functions are exact at the multiples of 45 degrees; the
\* rounding residue of the floats there (sin(pi) = 1.2e-16) is far below the
\* 1e-12 offset and is left out.
Surd(s, q, e) == [s |-> s, q |-> q, e |-> e]

NaNSurd == Surd(0, NaNFrac, 0)

IsNaNSurd(v) == IsNaNFrac(v.q)

One == Surd(1, FracOf(1), 0)

MinusOne == Surd(-1, FracOf(1), 0)

Zero == Surd(0, FracOf(0), 0)

RootHalf == Surd(1, Frac(1, 2), 0)

\* the product of two values without offset
SurdMul(a, b) ==
    IF IsNaNSurd(a) \/ IsNaNSurd(b) THEN NaNSurd
    ELSE Surd(a.s * b.s, FracMul(a.q, b.q), 0)

\* a / b for b without offset; x / 0 is no number the conversions can use
SurdDiv(a, b) ==
    IF IsNaNSurd(a) \/ IsNaNSurd(b) \/ b.s = 0 THEN NaNSurd
    ELSE Surd(a.s * b.s, FracDiv(a.q, b.q), a.e * b.s)

\* v + 1e-12
AddEps(v) == IF IsNaNSurd(v) THEN v ELSE Surd(v.s, v.q, v.e + 1)

\* the sign and the square of the cosine of a multiple of 45 degrees
CosSign(a) ==
    LET m == a % 360
    IN  IF m < 90 \/ m > 270 THEN 1 ELSE IF m = 90 \/ m = 270 THEN 0 ELSE -1

CosSq(a) ==
    LET m == a % 180
    IN  IF m = 0 THEN FracOf(1) ELSE IF m = 90 THEN FracOf(0) ELSE Frac(1, 2)

\* np.cos(np.deg2rad(a)) and np.sin(np.deg2rad(a)); NaN for the angle NaN
CosDeg(a) == IF a = NaN THEN NaNSurd ELSE Surd(CosSign(a), CosSq(a), 0)

SinDeg(a) == IF a = NaN THEN NaNSurd ELSE CosDeg(a - 90)

\* an arc cosine that takes every value for its magnitude
ArccosDegUnsigned(v) ==
    IF IsNaNSurd(v) THEN 0
    ELSE CHOOSE a \in {0, 45, 90} : CosSq(a) = v.q

\* np.rad2deg(np.nan_to_num(np.arccos(v))): NaN, and a value beyond 1, give 0
ArccosDeg(v) ==
    IF IsNaNSurd(v) THEN 0
    ELSE IF v.q = FracOf(1) /\ v.s * v.e > 0 THEN 0
    ELSE CHOOSE a \in {0, 45, 90, 135, 180} : CosSign(a) = v.s /\ CosSq(a) = v.q

\* the angle in (-180, 180] whose sine and cosine have the signs sy and sx,
\* 0 for two zeros
SignAngle(sy, sx) ==
    IF sy = 0 /\ sx = 0 THEN 0
    ELSE CHOOSE a \in {-135, -90, -45, 0, 45, 90, 135, 180} :
            CosSign(a - 90) = sy /\ CosSign(a) = sx

\* np.rad2deg(np.nan_to_num(np.arctan2(y, x))): where both values are zero
\* but for their offsets, the offsets decide
Arctan2Deg(y, x) ==
    IF IsNaNSurd(y) \/ IsNaNSurd(x) THEN 0
    ELSE IF y.s = 0 /\ x.s = 0 THEN SignAngle(Sign(y.e), Sign(x.e))
    ELSE CHOOSE a \in {SignAngle(y.s, x.s)} : y.s = 0 \/ x.s = 0 \/ y.q = x.q

\* the idx argument of the conversions: None, one label, or a list of labels
NoneIdx == [kind |-> "None"]

ScalarIdx(label) == [kind |-> "scalar", labels |-> {label}]

ListIdx(labels) == [kind |-> "list", labels |-> labels]

Selected(df, idx, i) == idx.kind = "None" \/ df[i].index \in idx.labels

\* Orientations.calculate_gradient(idx): G_x, G_y, G_z of the rows selected
CalculateGradient(df, idx) ==
    IF idx.kind # "None" /\ ~(idx.labels \subseteq Range(Index(df)))
    THEN [df |-> df, err |-> "KeyError"]
    ELSE [df |-> [i \in DOMAIN df |->
                    IF ~Selected(df, idx, i) THEN df[i]
                    ELSE [df[i] EXCEPT
                            !.G_x = AddEps(SurdMul(SurdMul(SinDeg(df[i].dip),
                                                           SinDeg(df[i].azimuth)),
                                                   df[i].polarity)),
                            !.G_y = AddEps(SurdMul(SurdMul(SinDeg(df[i].dip),
                                                           CosDeg(df[i].azimuth)),
                                                   df[i].polarity)),
                            !.G_z = AddEps(SurdMul(CosDeg(df[i].dip), df[i].polarity))]],
          err |-> "ok"]

\* the polarity, dip and azimuth that calculate_orientations first writes to
\* a row
AnglesOfGradient(row) ==
    [row EXCEPT !.polarity = One,
                !.dip = ArccosDeg(SurdDiv(row.G_z, One)),
                !.azimuth = Arctan2Deg(SurdDiv(row.G_x, One), SurdDiv(row.G_y, One))]

\* the two corrections of the azimuth: 360 is added to a negative one, and
\* with a dip below 0.001 it becomes 0
ShiftAzimuth(row) ==
    LET shifted == IF row.azimuth < 0 THEN row.azimuth + 360 ELSE row.azimuth
    IN  [row EXCEPT !.azimuth = IF FracLt(FracOf(row.dip), Frac(1, 1000)) THEN 0
                                ELSE shifted]

\* Orientations.calculate_orientations(idx).  With idx = None the corrections
\* act on the columns of the table.  With a list of labels they act on the
\* copy that .loc returns and are lost; with one label .loc returns a number,
\* and storing into it is a TypeError after polarity, dip and azimuth have
\* been written.
CalculateOrientations(df, idx) ==
    IF idx.kind # "None" /\ ~(idx.labels \subseteq Range(Index(df)))
    THEN [df |-> df, err |-> "KeyError"]
    ELSE [df |-> [i \in DOMAIN df |->
                    IF ~Selected(df, idx, i) THEN df[i]
                    ELSE IF idx.kind = "None" THEN ShiftAzimuth(AnglesOfGradient(df[i]))
                    ELSE AnglesOfGradient(df[i])],
          err |-> IF idx.kind = "scalar" THEN "TypeError" ELSE "ok"]

calculate_gradient(idx) ==
    /\ CommitData("orientations", CalculateGradient(orientations_df, idx))
    /\ UNCHANGED <<seriesVars, formationsVars, structure, additionalVars>>

calculate_orientations(idx) ==
    /\ CommitData("orientations", CalculateOrientations(orientations_df, idx))
    /\ UNCHANGED <<seriesVars, formationsVars, structure, additionalVars>>

\* a new row of the Orientations table: the columns of a data row and G_x,
\* G_y, G_z, dip, azimuth, polarity
NewOrientationRow(label, coord, surface) ==
    NewRow(label, coord, surface)
        @@ [G_x |-> NaNSurd, G_y |-> NaNSurd, G_z |-> NaNSurd,
            dip |-> NaN, azimuth |-> NaN, polarity |-> NaNSurd]

\* the pole_vector and orientation arguments of set_orientations
PoleVector(rows) == [kind |-> "pole_vector", rows |-> rows]

Orientation(rows) == [kind |-> "orientation", rows |-> rows]

\* both arguments given: the pole vector has priority and the orientation is
\* not read
PoleVectorAndOrientation(rows, orientation) ==
    [kind |-> "pole_vector", rows |-> rows, orientation |-> orientation]

\* Orientations.set_orientations(coord, pole_vector | orientation, surface):
\* a fresh table labelled 0..m-1; a pole vector fills G_x, G_y, G_z and the
\* angles are computed, an orientation <<azimuth, dip, polarity>> fills the
\* angles and the gradient is computed
SetOrientations(coord, given, surface) ==
    IF Len(coord) # Len(surface) \/ Len(coord) # Len(given.rows)
    THEN [df |-> <<>>, err |-> "ValueError"]
    ELSE LET blank == [i \in DOMAIN surface |->
                          NewOrientationRow(i - 1, coord[i], surface[i])]
             filled == [i \in DOMAIN blank |->
                          IF given.kind = "pole_vector"
                          THEN [blank[i] EXCEPT !.G_x = given.rows[i][1],
                                                !.G_y = given.rows[i][2],
                                                !.G_z = given.rows[i][3]]
                          ELSE [blank[i] EXCEPT !.azimuth = given.rows[i][1],
                                                !.dip = given.rows[i][2],
                                                !.polarity = given.rows[i][3]]]
         IN  IF given.kind = "pole_vector"
             THEN CalculateOrientations(filled, NoneIdx)
             ELSE CalculateGradient(filled, NoneIdx)

set_orientations(coord, given, surface) ==
    /\ Len(surface) <= MaxPoints
    /\ CommitData("orientations", SetOrientations(coord, given, surface))
    /\ UNCHANGED <<seriesVars, formationsVars, structure, additionalVars>>

\* modify_orientation with the angles given priority over the gradient
ModifyOrientationAnglesFirst(df, idx, kwargs) ==
    IF \E i \in DOMAIN df : df[i].index \notin idx.labels
    THEN [df |-> df, err |-> "AssertionError"]
    ELSE IF ~(DOMAIN kwargs \subseteq {"X", "Y", "Z", "G_x", "G_y", "G_z", "dip",
                                        "azimuth", "polarity", "surface"})
    THEN [df |-> df, err |-> "AssertionError"]
    ELSE IF DOMAIN kwargs = {} THEN [df |-> df, err |-> "ValueError"]
    ELSE IF ~(idx.labels \subseteq Range(Index(df))) THEN [df |-> df, err |-> "KeyError"]
    ELSE LET written == [i \in DOMAIN df |->
                            [k \in DOMAIN df[i] |->
                                IF k \in DOMAIN kwargs THEN kwargs[k] ELSE df[i][k]]]
         IN  IF DOMAIN kwargs \cap {"azimuth", "dip", "polarity"} # {}
             THEN CalculateGradient(written, idx)
             ELSE IF DOMAIN kwargs \cap {"G_x", "G_y", "G_z"} # {}
             THEN CalculateOrientations(written, idx)
             ELSE [df |-> written, err |-> "ok"]

\* modify_orientation(idx, **kwargs): kwargs gives each property one value,
\* written to every row named; then the angles are computed anew if a
\* gradient component was given, else the gradient if an angle was given.
\* The first assert asks that every label of the table is among idx.
ModifyOrientation(df, idx, kwargs) ==
    IF \E i \in DOMAIN df : df[i].index \notin idx.labels
    THEN [df |-> df, err |-> "AssertionError"]
    ELSE IF ~(DOMAIN kwargs \subseteq {"X", "Y", "Z", "G_x", "G_y", "G_z", "dip",
                                        "azimuth", "polarity", "surface"})
    THEN [df |-> df, err |-> "AssertionError"]
    ELSE IF DOMAIN kwargs = {} THEN [df |-> df, err |-> "ValueError"]
    ELSE IF ~(idx.labels \subseteq Range(Index(df))) THEN [df |-> df, err |-> "KeyError"]
    ELSE LET written == [i \in DOMAIN df |->
                            [k \in DOMAIN df[i] |->
                                IF k \in DOMAIN kwargs THEN kwargs[k] ELSE df[i][k]]]
         IN  IF DOMAIN kwargs \cap {"G_x", "G_y", "G_z"} # {}
             THEN CalculateOrientations(written, idx)
             ELSE IF DOMAIN kwargs \cap {"azimuth", "dip", "polarity"} # {}
             THEN CalculateGradient(written, idx)
             ELSE [df |-> written, err |-> "ok"]

modify_orientation(idx, kwargs) ==
    /\ CommitData("orientations", ModifyOrientation(orientations_df, idx, kwargs))
    /\ UNCHANGED <<seriesVars, formationsVars, structure, additionalVars>>

-----------------------------------------------------------------------------
(* Structure *)

IdColumnOf(df) == [i \in DOMAIN df |-> df[i].id]

OrderSeriesColumnOf(df) == [i \in DOMAIN df |-> df[i].order_series]

\* the distinct values of a column other than NaN, in order of first appearance
FirstAppearance(col) ==
    LET first == SelectSeq([i \in DOMAIN col |-> i],
                           LAMBDA i : col[i] # NaN /\ \A j \in 1..(i - 1) : col[j] # col[i])
    IN  [k \in DOMAIN first |-> col[first[k]]]

Ascending(keys) == SortBy(keys, keys)

\* value_counts(sort=False).values: NaN is dropped; the order of the counts is
\* the order of the hash table of the pandas build, ascending by value in
\* some and by first appearance in others
ValueCountOrders == {"ascending", "appearance"}

ValueCounts(col, order) ==
    LET keys == IF order = "ascending" THEN Ascending(FirstAppearance(col))
                ELSE FirstAppearance(col)
    IN  [k \in DOMAIN keys |-> Cardinality({i \in DOMAIN col : col[i] = keys[k]})]

RECURSIVE SumSeq(_)
SumSeq(s) == IF Len(s) = 0 THEN 0 ELSE Head(s) + SumSeq(Tail(s))

\* ndarray.cumsum()
CumSum(s) == [i \in DOMAIN s |-> SumSeq(SubSeq(s, 1, i))]

set_length_formations_i_DropLast(interfaces, order) ==
    LET c == ValueCounts(IdColumnOf(interfaces), order)
    IN  SubSeq(c, 1, Len(c) - 1)

set_length_formations_i(interfaces, order) == ValueCounts(IdColumnOf(interfaces), order)

set_length_series_i(interfaces, order) ==
    LET len_series_i == ValueCounts(OrderSeriesColumnOf(interfaces), order)
    IN  IF Len(len_series_i) = 0 THEN <<0>> ELSE len_series_i

set_length_series_o(orientations, order) ==
    ValueCounts(OrderSeriesColumnOf(orientations), order)

\* np.insert(self.len_formations_i[:-1], 0, 0).cumsum()
set_ref_position(len_formations_i) ==
    CumSum(<<0>> \o SubSeq(len_formations_i, 1, Len(len_formations_i) - 1))

\* the rows of a group counted instead of its distinct surfaces
NUniqueAsCount(interfaces, k) ==
    Cardinality({i \in DOMAIN interfaces : interfaces[i].order_series = k})

\* groupby('order_series').surface.nunique() for the group of key k
NUnique(interfaces, k) ==
    Cardinality({interfaces[i].surface :
                    i \in {j \in DOMAIN interfaces : interfaces[j].order_series = k}})

\* groupby sorts the groups by key and drops the rows whose key is NaN
set_number_of_formations_per_series(interfaces) ==
    LET keys == Ascending(FirstAppearance(OrderSeriesColumnOf(interfaces)))
    IN  CumSum([k \in DOMAIN keys |-> NUnique(interfaces, keys[k])])

\* Structure.__init__(interfaces, orientations)
StructureOf(interfaces, orientations, order) ==
    LET len_formations_i == set_length_formations_i(interfaces, order)
    IN  [len_formations_i |-> len_formations_i,
         len_series_i |-> set_length_series_i(interfaces, order),
         len_series_o |-> set_length_series_o(orientations, order),
         ref_position |-> set_ref_position(len_formations_i),
         nfs |-> set_number_of_formations_per_series(interfaces)]

\* AdditionalData.update_structure
update_structure ==
    /\ UNCHANGED <<seriesVars, formationsVars, interfaces_df, orientations_df, additionalVars>>
    /\ err' = "ok"
    /\ \E order \in ValueCountOrders :
          structure' = StructureOf(interfaces_df, orientations_df, order)

-----------------------------------------------------------------------------
(* AdditionalData: the universal drift *)

\* The u_grade argument: None, one degree for every series, or a list of
\* degrees.
NoneGrade == [kind |-> "None"]

ScalarGrade(degree) == [kind |-> "scalar", value |-> degree]

ListGrade(degrees) == [kind |-> "list", value |-> degrees]

\* AdditionalData.set_u_grade on the len_series_i of the Structure: the
\* entries of a zero array shaped like len_series_i are set through the
\* masks u_grade == 0, u_grade == 1 and u_grade == 2; a list mask of another
\* length is an IndexError
SetUGrade(len_series_i, u_grade) ==
    LET grade == IF u_grade.kind = "None"
                 THEN [i \in DOMAIN len_series_i |-> IF len_series_i[i] > 1 THEN 1 ELSE 0]
                 ELSE IF u_grade.kind = "scalar"
                 THEN [i \in DOMAIN len_series_i |-> u_grade.value]
                 ELSE u_grade.value
        equations(g) == IF g = 1 THEN 3 ELSE IF g = 2 THEN 9 ELSE 0
    IN  IF Len(grade) # Len(len_series_i)
        THEN [n_universal_eq |-> <<>>, err |-> "IndexError"]
        ELSE [n_universal_eq |-> [i \in DOMAIN len_series_i |-> equations(grade[i])],
              err |-> "ok"]

set_u_grade(u_grade) ==
    LET r == SetUGrade(structure.len_series_i, u_grade)
    IN  /\ n_universal_eq' = IF r.err = "ok" THEN r.n_universal_eq ELSE n_universal_eq
        /\ err' = r.err
        /\ UNCHANGED <<seriesVars, formationsVars, dataVars, rescaling_factor, centers,
                       grid, returned, solution>>

-----------------------------------------------------------------------------
(* GridClass *)

\* np.linspace(start, stop, num)
Linspace(start, stop, num) ==
    [i \in 1..num |->
        IF num = 1 THEN start
        ELSE FracAdd(start, FracMul(Frac(i - 1, num - 1), FracSub(stop, start)))]

\* GridClass.create_regular_grid_3d: the rows of the meshgrid with "ij"
\* indexing, ravelled in C order
create_regular_grid_3d(extent, resolution) ==
    LET dx == FracDiv(FracOf(extent[2] - extent[1]), FracOf(resolution[1]))
        dy == FracDiv(FracOf(extent[4] - extent[3]), FracOf(resolution[1]))
        dz == FracDiv(FracOf(extent[6] - extent[5]), FracOf(resolution[1]))
        half(d) == FracDiv(d, FracOf(2))
        gx == Linspace(FracAdd(FracOf(extent[1]), half(dx)), FracSub(FracOf(extent[2]), half(dx)),
                       resolution[1])
        gy == Linspace(FracAdd(FracOf(extent[3]), half(dy)), FracSub(FracOf(extent[4]), half(dy)),
                       resolution[2])
        gz == Linspace(FracAdd(FracOf(extent[5]), half(dz)), FracSub(FracOf(extent[6]), half(dz)),
                       resolution[3])
        ny == resolution[2]
        nz == resolution[3]
    IN  [r \in 1..(resolution[1] * ny * nz) |->
            <<gx[((r - 1) \div (ny * nz)) + 1],
              gy[(((r - 1) \div nz) % ny) + 1],
              gz[((r - 1) % nz) + 1]>>]

\* GridClass.set_regular_grid on a grid g
SetRegularGrid(g, extent, resolution) ==
    [g EXCEPT !.extent = [i \in 1..6 |-> FracOf(extent[i])],
              !.resolution = resolution,
              !.values = create_regular_grid_3d(extent, resolution)]

-----------------------------------------------------------------------------
(* RescaledData *)

\* the X, Y, Z of the rows of pn.concat([orientations.df, interfaces.df])
CoordRows(interfaces, orientations) ==
    [i \in 1..(Len(orientations) + Len(interfaces)) |->
        LET r == (orientations \o interfaces)[i] IN <<r.X, r.Y, r.Z>>]

\* df.max() and df.min() of one column of integers, NaN on an empty frame
ColumnMax(rows, k) ==
    IF Len(rows) = 0 THEN NaNFrac
    ELSE FracOf(CHOOSE m \in {rows[i][k] : i \in DOMAIN rows} :
                \A i \in DOMAIN rows : rows[i][k] <= m)

ColumnMin(rows, k) ==
    IF Len(rows) = 0 THEN NaNFrac
    ELSE FracOf(CHOOSE m \in {rows[i][k] : i \in DOMAIN rows} :
                \A i \in DOMAIN rows : m <= rows[i][k])

max_min_coord(interfaces, orientations) ==
    LET rows == CoordRows(interfaces, orientations)
    IN  [max_coord |-> [k \in 1..3 |-> ColumnMax(rows, k)],
         min_coord |-> [k \in 1..3 |-> ColumnMin(rows, k)]]

\* (max_coord + min_coord) / 2
compute_data_center(max_coord, min_coord) ==
    [k \in 1..3 |-> FracDiv(FracAdd(max_coord[k], min_coord[k]), FracOf(2))]

\* 2 * np.max(max_coord - min_coord); the maximum skips NaN and is NaN when
\* every entry is
compute_rescaling_factor(max_coord, min_coord) ==
    LET range == [k \in 1..3 |-> FracSub(max_coord[k], min_coord[k])]
        nums == {k \in 1..3 : ~IsNaNFrac(range[k])}
    IN  IF nums = {} THEN NaNFrac
        ELSE FracMul(FracOf(2),
                     range[CHOOSE k \in nums : \A j \in nums : ~FracLt(range[k], range[j])])

\* the shift that rescale_interfaces, rescale_orientations and rescale_grid add
RescaleShift == Frac(5001, 10000)

\* (data_points - centers) / rescaling_factor + 0.5001 of one point
rescale_data_point(point, rescaling_factor_, centers_) ==
    [k \in 1..3 |->
        FracAdd(FracDiv(FracSub(point[k], centers_[k]), rescaling_factor_), RescaleShift)]

\* the X_r, Y_r, Z_r of every row (idx = None)
rescale_interfaces(df, rescaling_factor_, centers_) ==
    [i \in DOMAIN df |->
        rescale_data_point(<<FracOf(df[i].X), FracOf(df[i].Y), FracOf(df[i].Z)>>,
                           rescaling_factor_, centers_)]

set_rescaled_interfaces(df, rescaling_factor_, centers_) ==
    LET new == rescale_interfaces(df, rescaling_factor_, centers_)
    IN  [i \in DOMAIN df |->
            [df[i] EXCEPT !.X_r = new[i][1], !.Y_r = new[i][2], !.Z_r = new[i][3]]]

rescale_orientations(df, rescaling_factor_, centers_) ==
    [i \in DOMAIN df |->
        rescale_data_point(<<FracOf(df[i].X), FracOf(df[i].Y), FracOf(df[i].Z)>>,
                           rescaling_factor_, centers_)]

set_rescaled_orientations(df, rescaling_factor_, centers_) ==
    LET new == rescale_orientations(df, rescaling_factor_, centers_)
    IN  [i \in DOMAIN df |->
            [df[i] EXCEPT !.X_r = new[i][1], !.Y_r = new[i][2], !.Z_r = new[i][3]]]

\* rescale_grid: the extent against np.repeat(centers, 2), the values row by row
rescale_grid(g, rescaling_factor_, centers_) ==
    [extent_r |-> [i \in 1..6 |->
                      FracAdd(FracDiv(FracSub(g.extent[i], centers_[(i + 1) \div 2]),
                                      rescaling_factor_), RescaleShift)],
     values_r |-> [i \in DOMAIN g.values |->
                      rescale_data_point(g.values[i], rescaling_factor_, centers_)]]

set_rescaled_grid(g, rescaling_factor_, centers_) ==
    LET new == rescale_grid(g, rescaling_factor_, centers_)
    IN  [g EXCEPT !.extent_r = new.extent_r, !.values_r = new.values_r]

\* rescale_data(rescaling_factor=None, centers=None) on the given tables
RescaleData(interfaces, orientations, g) ==
    LET mm == max_min_coord(interfaces, orientations)
        f == compute_rescaling_factor(mm.max_coord, mm.min_coord)
        c == compute_data_center(mm.max_coord, mm.min_coord)
    IN  [rescaling_factor |-> f,
         centers |-> c,
         interfaces |-> set_rescaled_interfaces(interfaces, f, c),
         orientations |-> set_rescaled_orientations(orientations, f, c),
         grid |-> set_rescaled_grid(g, f, c)]

rescale_data ==
    LET r == RescaleData(interfaces_df, orientations_df, grid)
    IN  /\ rescaling_factor' = r.rescaling_factor
        /\ centers' = r.centers
        /\ interfaces_df' = r.interfaces
        /\ orientations_df' = r.orientations
        /\ grid' = r.grid
        /\ err' = "ok"
        /\ UNCHANGED <<seriesVars, formationsVars, structure, n_universal_eq, returned,
                       solution>>

\* GridClass.set_regular_grid; the rescaled extent and values stay as they are
set_regular_grid(extent, resolution) ==
    /\ grid' = SetRegularGrid(grid, extent, resolution)
    /\ err' = "ok"
    /\ UNCHANGED <<seriesVars, formationsVars, dataVars, rescaling_factor, centers,
                   n_universal_eq, returned, solution>>

-----------------------------------------------------------------------------
(* Interpolator *)

\* Interpolator.get_input_matrix: the rescaled columns of both tables and the
\* angles of the orientations as they stand
get_input_matrix ==
    /\ returned' = [call |-> "get_input_matrix",
                    dips_position |-> [i \in DOMAIN orientations_df |->
                        <<orientations_df[i].X_r, orientations_df[i].Y_r,
                          orientations_df[i].Z_r>>],
                    dip_angles |-> [i \in DOMAIN orientations_df |-> orientations_df[i].dip],
                    azimuth |-> [i \in DOMAIN orientations_df |->
                                    orientations_df[i].azimuth],
                    polarity |-> [i \in DOMAIN orientations_df |->
                                     orientations_df[i].polarity],
                    interfaces_coord |-> [i \in DOMAIN interfaces_df |->
                        <<interfaces_df[i].X_r, interfaces_df[i].Y_r,
                          interfaces_df[i].Z_r>>]]
    /\ err' = "ok"
    /\ UNCHANGED <<seriesVars, formationsVars, dataVars, rescaling_factor, centers, grid,
                   n_universal_eq, solution>>

\* AdditionalData.get_additional_data: the structure and rescaling entries as
\* they stand
get_additional_data ==
    /\ returned' = [call |-> "get_additional_data", structure |-> structure,
                    rescaling_factor |-> rescaling_factor, centers |-> centers]
    /\ err' = "ok"
    /\ UNCHANGED <<seriesVars, formationsVars, dataVars, rescaling_factor, centers, grid,
                   n_universal_eq, solution>>

\* the difference a - b of two arrays under the broadcasting of numpy: an
\* array of one entry is stretched to the length of the other
CanBroadcast(a, b) == Len(a) = Len(b) \/ Len(a) = 1 \/ Len(b) = 1

Minus(a, b) ==
    LET n == IF Len(a) = 1 THEN Len(b) ELSE Len(a)
    IN  [i \in 1..n |-> (IF Len(a) = 1 THEN a[1] ELSE a[i])
                           - (IF Len(b) = 1 THEN b[1] ELSE b[i])]

\* what astype('int32') makes of a cell that is NaN depends on the machine
NaNAsInt32 == {0, (-2147483647) - 1}

\* Interpolator.set_theano_shared_structure: the values set on the shared
\* variables of the graph, read from the entries of structure_data (the arrays
\* of the Structure) and from the relation matrix of the faults. The shared
\* variables set before an exception keep their new values.
SetTheanoSharedStructure(st, nf, rel_values, nan_as) ==
    LET len_rest_form == [i \in DOMAIN st.len_formations_i |-> st.len_formations_i[i] - 1]
        first == [call |-> "set_theano_shared_structure",
                  number_of_points_per_formation_T |-> len_rest_form,
                  npf |-> CumSum(<<0>> \o len_rest_form)]
    IN  IF ~CanBroadcast(st.len_series_i, st.nfs)
        THEN [shared |-> first, err |-> "ValueError"]
        ELSE [shared |->
                 [call |-> "set_theano_shared_structure",
                  number_of_points_per_formation_T |-> len_rest_form,
                  npf |-> CumSum(<<0>> \o len_rest_form),
                  len_series_i |-> CumSum(<<0>> \o Minus(st.len_series_i, st.nfs)),
                  len_series_f |-> CumSum(<<0>> \o st.len_series_o),
                  n_formations_per_serie |-> <<0>> \o st.nfs,
                  n_faults |-> nf,
                  fault_relation |->
                      [i \in DOMAIN rel_values |->
                          [j \in DOMAIN rel_values[i] |->
                              IF rel_values[i][j] = NaN THEN nan_as ELSE rel_values[i][j]]]],
              err |-> "ok"]

set_theano_shared_structure ==
    /\ \E nan_as \in NaNAsInt32 :
          LET r == SetTheanoSharedStructure(structure, n_faults,
                                            faults_relations_df.values, nan_as)
          IN  /\ returned' = r.shared
              /\ err' = r.err
    /\ UNCHANGED <<seriesVars, formationsVars, dataVars, rescaling_factor, centers, grid,
                   n_universal_eq, solution>>

-----------------------------------------------------------------------------
(* Solution *)

\* scalar_field_at_interfaces.sum(axis=0): the sums of the columns of the
\* array of one row per series; the sum of an empty array has no entries
PotInt(scalar_field_at_interfaces) ==
    IF Len(scalar_field_at_interfaces) = 0 THEN <<>>
    ELSE [j \in DOMAIN scalar_field_at_interfaces[1] |->
            SumSeq([i \in DOMAIN scalar_field_at_interfaces |->
                      scalar_field_at_interfaces[i][j]])]

FieldMax(scalar_field) ==
    CHOOSE m \in Range(scalar_field) : \A v \in Range(scalar_field) : v <= m

FieldMin(scalar_field) ==
    CHOOSE m \in Range(scalar_field) : \A v \in Range(scalar_field) : m <= v

\* the check against the maximum alone
ClampAbove(pot, scalar_field) ==
    LET above == ~(FieldMax(scalar_field) > pot)
    IN  [level |-> IF above THEN FieldMax(scalar_field) ELSE pot, warned |-> above]

\* the two checks of compute_surface_regular_grid on the isovalue pot: the
\* level that is passed on and whether a message was printed
Clamp(pot, scalar_field) ==
    LET above == ~(FieldMax(scalar_field) > pot)
        p1 == IF above THEN FieldMax(scalar_field) ELSE pot
        below == ~(FieldMin(scalar_field) < p1)
    IN  [level |-> IF below THEN FieldMin(scalar_field) ELSE p1, warned |-> above \/ below]

\* skimage.measure.marching_cubes_lewiner: a level outside the range of the
\* volume is a ValueError; at an extremum of the volume it may find no face,
\* which is a RuntimeError (found says whether it does)
marching_cubes_lewiner(scalar_field, level, found) ==
    IF level < FieldMin(scalar_field) \/ level > FieldMax(scalar_field) THEN "ValueError"
    ELSE IF ~found /\ level \in {FieldMin(scalar_field), FieldMax(scalar_field)}
    THEN "RuntimeError"
    ELSE "ok"

\* Solution.compute_surface_regular_grid(surface_id, scalar_field): the
\* outcome, the level passed to the extraction, whether a message was printed
\* and the mesh
ComputeSurfaceRegularGrid(sol, surface_id, scalar_field, found) ==
    LET pot_int == PotInt(sol.scalar_field_at_interfaces)
        none == [err |-> "ok", level |-> NaN, warned |-> FALSE, mesh |-> <<>>]
    IN  IF surface_id < 0 THEN [none EXCEPT !.err = "AssertionError"]
        ELSE IF Len(scalar_field) = 0 THEN [none EXCEPT !.err = "ValueError"]
        ELSE IF surface_id + 1 > Len(pot_int) THEN [none EXCEPT !.err = "IndexError"]
        ELSE LET c == Clamp(pot_int[surface_id + 1], scalar_field)
                 outcome == marching_cubes_lewiner(scalar_field, c.level, found)
             IN  [err |-> outcome, level |-> c.level, warned |-> c.warned,
                  mesh |-> IF outcome = "ok" THEN <<surface_id, c.level>> ELSE <<>>]

compute_surface_regular_grid(surface_id, scalar_field, found) ==
    LET r == ComputeSurfaceRegularGrid(solution, surface_id, scalar_field, found)
    IN  /\ returned' = [call |-> "compute_surface_regular_grid", level |-> r.level,
                        warned |-> r.warned, mesh |-> r.mesh]
        /\ err' = r.err
        /\ UNCHANGED <<seriesVars, formationsVars, dataVars, rescaling_factor, centers, grid,
                       n_universal_eq, solution>>

\* dict[key] = value
SetItem(dict, key, value) ==
    [k \in DOMAIN dict \cup {key} |-> IF k = key THEN value ELSE dict[k]]

\* one pass of a loop of compute_all_surfaces: the surface n of scalar_field
\* is computed and stored under the formation name at row position n
ExtractSurface(acc, fdf, n, scalar_field, found) ==
    LET r == ComputeSurfaceRegularGrid(acc.sol, n, scalar_field, found)
    IN  IF r.err # "ok" THEN [acc EXCEPT !.err = r.err]
        ELSE IF n + 1 > Len(fdf) THEN [acc EXCEPT !.err = "IndexError"]
        ELSE [acc EXCEPT !.sol.vertices = SetItem(@, fdf[n + 1].formation, r.mesh),
                         !.sol.edges = SetItem(@, fdf[n + 1].formation, r.mesh)]

\* for n in n_surfaces[:n_faults]: the field of fault n
RECURSIVE ExtractFaults(_, _, _, _)
ExtractFaults(acc, fdf, ns, found) ==
    IF Len(ns) = 0 \/ acc.err # "ok" THEN acc
    ELSE IF Head(ns) = NaN \/ Head(ns) + 1 > Len(acc.sol.scalar_field_faults)
    THEN [acc EXCEPT !.err = "IndexError"]
    ELSE ExtractFaults(
            ExtractSurface(acc, fdf, Head(ns), acc.sol.scalar_field_faults[Head(ns) + 1],
                           found),
            fdf, Tail(ns), found)

\* for n in n_formations: the field of the lithologies
RECURSIVE ExtractFormations(_, _, _, _)
ExtractFormations(acc, fdf, ns, found) ==
    IF Len(ns) = 0 \/ acc.err # "ok" THEN acc
    ELSE ExtractFormations(
            ExtractSurface(acc, fdf, Head(ns), acc.sol.scalar_field_lith, found),
            fdf, Tail(ns), found)

\* Solution.compute_all_surfaces on the catalog fdf with nf faults
ComputeAllSurfaces(sol, fdf, nf, found) ==
    IF \E i \in DOMAIN fdf : fdf[i].isBasement = NaN THEN [sol |-> sol, err |-> "TypeError"]
    ELSE LET rows == SelectSeq(fdf, LAMBDA r : r.isBasement = 0)
             n_surfaces == [k \in DOMAIN rows |->
                               IF rows[k].id = NaN THEN NaN ELSE rows[k].id - 1]
             first == IF nf < Len(n_surfaces) THEN nf ELSE Len(n_surfaces)
             a1 == ExtractFaults([sol |-> sol, err |-> "ok"], fdf,
                                 SubSeq(n_surfaces, 1, first), found)
             n_formations == [k \in 1..(Len(n_surfaces) - nf) |-> nf + k - 1]
         IN  ExtractFormations(a1, fdf, n_formations, found)

compute_all_surfaces(found) ==
    LET r == ComputeAllSurfaces(solution, formations_df, n_faults, found)
    IN  /\ solution' = r.sol
        /\ err' = r.err
        /\ UNCHANGED <<seriesVars, formationsVars, dataVars, rescaling_factor, centers, grid,
                       n_universal_eq, returned>>

\* Solution.set_values(values, compute_mesh) with values = [lith, faults,
\* scalar_field_at_interfaces]: lith[1] is the field of the lithologies, the
\* odd rows of faults are the fields of the faults; a RuntimeError of the
\* mesh computation is caught
SetValues(sol, fdf, nf, values, compute_mesh, found) ==
    LET set == [sol EXCEPT
                  !.scalar_field_at_interfaces = values.scalar_field_at_interfaces,
                  !.scalar_field_lith = values.lith[2],
                  !.scalar_field_faults =
                      [k \in 1..(Len(values.faults) \div 2) |-> values.faults[2 * k]]]
    IN  IF Len(set.scalar_field_faults) # nf THEN [sol |-> set, err |-> "AssertionError"]
        ELSE IF ~compute_mesh THEN [sol |-> set, err |-> "ok"]
        ELSE LET r == ComputeAllSurfaces(set, fdf, nf, found)
             IN  [r EXCEPT !.err = IF @ = "RuntimeError" THEN "ok" ELSE @]

set_values(values, compute_mesh, found) ==
    LET r == SetValues(solution, formations_df, n_faults, values, compute_mesh, found)
    IN  /\ solution' = r.sol
        /\ err' = r.err
        /\ UNCHANGED <<seriesVars, formationsVars, dataVars, rescaling_factor, centers, grid,
                       n_universal_eq, returned>>

-----------------------------------------------------------------------------
(* Construction *)

\* Faults.__init__(series_fault=None, rel_matrix=None)
FaultsInit ==
    /\ faults_df = <<[index |-> DefaultSeries, isFault |-> 0]>>
    /\ faults_categories = <<DefaultSeries>>
    /\ faults_relations_df =
          [index |-> <<DefaultSeries>>, index_categories |-> <<DefaultSeries>>,
           columns |-> <<DefaultSeries>>, columns_categories |-> <<DefaultSeries>>,
           values |-> <<<<0>>>>]
    /\ n_faults = 0

\* Faults.__init__(series_fault, rel_matrix): set_is_fault on the table of
\* 'Default series', set_fault_relation, and last n_faults = 0
FaultsCtor(series_fault, rel_matrix) ==
    LET blank == <<[index |-> DefaultSeries, isFault |-> NaN]>>
        f == SetIsFault(blank, 0, series_fault)
        empty == [index |-> <<DefaultSeries>>, index_categories |-> <<DefaultSeries>>,
                  columns |-> <<DefaultSeries>>, columns_categories |-> <<DefaultSeries>>,
                  values |-> <<<<0>>>>]
        r == SetFaultRelation(empty, Index(f.df), <<DefaultSeries>>, rel_matrix)
    IN  [df |-> f.df, faults_relations_df |-> r.rel, n_faults |-> 0, err |-> r.err]

\* Series.__init__(faults, series_order)
SeriesInit(series_order) ==
    /\ series_df = [i \in DOMAIN series_order |->
                      [index |-> series_order[i], order_series |-> NaN,
                       BottomRelation |-> NaN]]
    /\ series_categories = InferCategories(series_order)

\* Formations.__init__(series) with no formation names
FormationsInit ==
    /\ formations_df = <<>>
    /\ formation_categories = <<>>
    /\ formations_series_categories = <<DefaultSeries>>

\* Solution(additional_data, formations, grid) with values=None
SolutionInit ==
    [scalar_field_at_interfaces |-> <<>>, scalar_field_lith |-> <<>>,
     scalar_field_faults |-> <<>>, vertices |-> <<>>, edges |-> <<>>]

\* GridClass("regular_grid", extent, resolution) of the unit cube with one
\* cell, then RescaledData(interfaces, orientations, grid) on the empty
\* tables and set_u_grade(None) of AdditionalData.__init__
DefaultExtent == <<0, 1, 0, 1, 0, 1>>

DefaultResolution == <<1, 1, 1>>

EmptyGrid == [extent |-> <<>>, resolution |-> <<>>, values |-> <<>>,
              extent_r |-> <<>>, values_r |-> <<>>]

RescaleInit ==
    LET g == SetRegularGrid(EmptyGrid, DefaultExtent, DefaultResolution)
        r == RescaleData(<<>>, <<>>, g)
    IN  /\ rescaling_factor = r.rescaling_factor
        /\ centers = r.centers
        /\ grid = r.grid
        /\ n_universal_eq = SetUGrade(<<0>>, NoneGrade).n_universal_eq
        /\ returned = [call |-> "none"]
        /\ solution = SolutionInit

\* Interfaces(formations), Orientations(formations) and the Structure built
\* from them by AdditionalData.__init__
DataInit ==
    /\ interfaces_df = <<>>
    /\ orientations_df = <<>>
    /\ structure = StructureOf(<<>>, <<>>, "ascending")
    /\ RescaleInit

Init ==
    /\ FaultsInit
    /\ SeriesInit(<<DefaultSeries>>)
    /\ FormationsInit
    /\ DataInit
    /\ err = "ok"

-----------------------------------------------------------------------------
(* Inputs *)
SeriesNames == Range(SeriesNameOrder)

\* the lists given to add_series, set_series_index and reorder_series
SeriesLists == UniqueSeqs({"A", "B", "C"}, MaxList)

\* reorder_series is also given every ordering of the current categories
Orderings(cats) == {l \in UniqueSeqs(Range(cats), Len(cats)) : Len(l) = Len(cats)}

RenameArgs ==
    {[kind |-> "list", names |-> l] : l \in UniqueSeqs({"A", "B2"}, MaxList)}
    \cup {[kind |-> "dict", old |-> a, new |-> b] : a \in SeriesNames, b \in {"A", "B2"}}

DropArgs == {S \in SUBSET SeriesNames : Cardinality(S) \in 1..2}

Next ==
    \/ \E l \in SeriesLists : add_series(l)
    \/ \E S \in DropArgs : delete_series(S)
    \/ \E a \in RenameArgs : rename_series(a)
    \/ \E l \in SeriesLists \cup Orderings(series_categories) : reorder_series(l)
    \/ \E l \in SeriesLists : set_series_index(l)

Spec == Init /\ [][Next]_vars

\* Series(faults, series_order) for any series_order
CtorLists == {<<DefaultSeries>>, <<"A", "B">>}

InitCtor ==
    /\ FaultsInit
    /\ \E series_order \in CtorLists : SeriesInit(series_order)
    /\ FormationsInit
    /\ DataInit
    /\ err = "ok"

NextCtor ==
    \/ \E c \in {"A", "B", "C"} : add_series(<<c>>)
    \/ \E c \in SeriesNames : delete_series({c})
    \/ \E c \in SeriesNames : rename_series([kind |-> "dict", old |-> c, new |-> "B2"])
    \/ \E l \in Orderings(series_categories) : reorder_series(l)
    \/ \E l \in UniqueSeqs({"A", "B"}, MaxList) : set_series_index(l)

\* the calls on Formations
FormationNames == {"a", "b", "basement"}

NextForm ==
    \/ \E l \in UniqueSeqs(FormationNames, MaxList) : add_formation(l)
    \/ \E k \in 0..MaxLabel : delete_formation({k})
    \/ sort_formations
    \/ \E n \in FormationNames \cup {"None"} : set_basement(n)
    \/ add_basement("basement")
    \/ \E k \in {"A", DefaultSeries}, n \in FormationNames :
          map_series([kind |-> "dict", series |-> k, formations |-> {n}])
    \/ map_series([kind |-> "None"])
    \/ \E l \in UniqueSeqs(FormationNames, MaxList) : set_formation_names_pro(l)

SpecForm == Init /\ [][NextForm]_vars

\* the calls on Series that change what Formations reads, with the calls that
\* give the surfaces a series
SeriesMutation ==
    \/ \E c \in {"A", DefaultSeries} : delete_series({c})
    \/ \E c \in {"A", DefaultSeries} : rename_series([kind |-> "dict", old |-> c, new |-> "B"])

NextSync ==
    \/ \E n \in {"a", "b"} : add_formation(<<n>>)
    \/ \E k \in {"A", "B", DefaultSeries}, n \in {"a", "b"} :
          map_series([kind |-> "dict", series |-> k, formations |-> {n}])
    \/ map_series([kind |-> "None"])
    \/ \E c \in {"A", DefaultSeries} : add_series(<<c>>)
    \/ SeriesMutation

SpecSync == Init /\ [][NextSync]_vars

SpecCtor == InitCtor /\ [][NextCtor]_vars

\* the calls on Interfaces and Structure, over a catalog built by the calls of
\* Series and Formations (the series 'Default series' and 'A', the surfaces
\* 'a' and 'b' and the basement) and one mapped orientation on surface 'a'
DefaultTables ==
    [series_df |-> <<[index |-> DefaultSeries, order_series |-> NaN,
                      BottomRelation |-> NaN]>>,
     series_categories |-> <<DefaultSeries>>,
     faults_df |-> <<[index |-> DefaultSeries, isFault |-> 0]>>,
     faults_categories |-> <<DefaultSeries>>,
     faults_relations_df |->
        [index |-> <<DefaultSeries>>, index_categories |-> <<DefaultSeries>>,
         columns |-> <<DefaultSeries>>, columns_categories |-> <<DefaultSeries>>,
         values |-> <<<<0>>>>],
     err |-> "ok"]

TwoSeries == AddSeriesTables(DefaultTables, <<"A">>)

\* add_formation(['a', 'b']); map_series({'A': in_A}); add_basement()
Catalog(in_A) ==
    LET sidx == Index(TwoSeries.series_df)
        f0 == [df |-> <<>>, categories |-> <<>>, series_categories |-> <<DefaultSeries>>,
               err |-> "ok"]
        f1 == AddFormationTables(f0, sidx, <<"a", "b">>)
        f2 == MapSeries(f1, sidx, [kind |-> "dict", series |-> "A", formations |-> in_A])
    IN  AddBasementTables(f2, "basement")

\* the coordinates of every point of this specification
Origin == <<0, 0, 0>>

\* the three mappings on a table just set
Mapped(d0, fdf, sdf) ==
    LET d1 == MapDataFromFormations(d0, fdf, "series").df
        d2 == MapDataFromFormations(d1, fdf, "id").df
    IN  MapDataFromSeries(d2, sdf).df

\* set_interfaces(coord, surface) followed by the three mappings
MappedData(coord, surface, fdf, sdf) == Mapped(SetData(coord, surface).df, fdf, sdf)

\* the pole vector of a horizontal layer
UpGradient == <<Zero, Zero, One>>

\* set_orientations(coord, pole_vector, surface=surface) followed by the three
\* mappings
MappedOrientations(coord, pole_vector, surface, fdf, sdf) ==
    Mapped(SetOrientations(coord, PoleVector(pole_vector), surface).df, fdf, sdf)

InitStruct ==
    /\ series_df = TwoSeries.series_df
    /\ series_categories = TwoSeries.series_categories
    /\ faults_df = TwoSeries.faults_df
    /\ faults_categories = TwoSeries.faults_categories
    /\ faults_relations_df = TwoSeries.faults_relations_df
    /\ n_faults = 0
    /\ \E in_A \in {{"b"}, {"a"}} :
          /\ formations_df = Catalog(in_A).df
          /\ formation_categories = Catalog(in_A).categories
          /\ formations_series_categories = Catalog(in_A).series_categories
          /\ orientations_df = MappedOrientations(<<Origin>>, <<UpGradient>>, <<"a">>,
                                                  Catalog(in_A).df, TwoSeries.series_df)
    /\ interfaces_df = <<>>
    /\ structure = StructureOf(<<>>, <<>>, "ascending")
    /\ RescaleInit
    /\ err = "ok"

SurfaceInputs == {"a", "b"}

DataObjects == {"interfaces", "orientations"}

NextStruct ==
    \/ \E l \in SeqsOver(SurfaceInputs, MaxPoints) :
          set_interfaces([i \in DOMAIN l |-> Origin], l)
    \/ \E s \in SurfaceInputs : add_interface(Origin[1], Origin[2], Origin[3], s)
    \/ /\ Len(interfaces_df) > 0
       /\ del_interface(interfaces_df[Len(interfaces_df)].index)
    \/ \E obj \in DataObjects, property \in {"series", "id"} :
          map_data_from_formations(obj, property)
    \/ \E obj \in DataObjects : map_data_from_series(obj)
    \/ \E obj \in DataObjects : sort_table(obj)
    \/ update_structure

SpecStruct == InitStruct /\ [][NextStruct]_vars

-----------------------------------------------------------------------------
(* Specification of the shared structure: the points of SpecStruct, and the *)
(* offsets handed to the graph from the Structure as it stands.             *)

NextShared ==
    \/ \E l \in SeqsOver(SurfaceInputs, MaxPoints) :
          set_interfaces([i \in DOMAIN l |-> Origin], l)
    \/ \E s \in SurfaceInputs : add_interface(Origin[1], Origin[2], Origin[3], s)
    \/ \E obj \in DataObjects, property \in {"series", "id"} :
          map_data_from_formations(obj, property)
    \/ \E obj \in DataObjects : map_data_from_series(obj)
    \/ update_structure
    \/ set_theano_shared_structure

SpecShared == InitStruct /\ [][NextShared]_vars

-----------------------------------------------------------------------------
(* Specification of the faults: a Faults built with any series_fault, then  *)
(* the calls on Series together with set_is_fault and set_fault_relation.   *)

SeriesFaultInputs ==
    {NoSeriesFault, SeriesFault({DefaultSeries}), SeriesFault({"A"}),
     SeriesFault({"A", "B"})}

\* relation matrices of one and of two series, one that is not square, and a
\* matrix given as a list of lists
MatrixInputs ==
    {NoMatrix, NdArray(<<<<1>>>>), NdArray(<<<<0, 1>>, <<0, 0>>>>),
     NdArray(<<<<0, 1>>, <<1, 0>>>>), NdArray(<<<<0>>, <<0>>>>),
     ListOfLists(<<<<0, 0>>, <<0, 0>>>>)}

InitFaults ==
    /\ \E series_fault \in {NoSeriesFault, SeriesFault({DefaultSeries})} :
          LET f == FaultsCtor(series_fault, NoMatrix)
          IN  /\ faults_df = f.df
              /\ faults_relations_df = f.faults_relations_df
              /\ n_faults = f.n_faults
    /\ faults_categories = <<DefaultSeries>>
    /\ SeriesInit(<<DefaultSeries>>)
    /\ FormationsInit
    /\ DataInit
    /\ err = "ok"

NextFaults ==
    \/ \E c \in {"A", "B"} : add_series(<<c>>)
    \/ \E c \in {"A", DefaultSeries} : delete_series({c})
    \/ rename_series([kind |-> "dict", old |-> "B", new |-> "B2"])
    \/ \E l \in Orderings(series_categories) : reorder_series(l)
    \/ set_series_index(<<"A", "B">>)
    \/ \E series_fault \in SeriesFaultInputs : set_is_fault(series_fault)
    \/ \E rel_matrix \in MatrixInputs : set_fault_relation(rel_matrix)

SpecFaults == InitFaults /\ [][NextFaults]_vars

-----------------------------------------------------------------------------
(* Specification of the rescaling: points are set, added, modified and      *)
(* deleted, the grid is replaced, the data is rescaled and read.            *)

CoordInputs == {<<0, 0, 0>>, <<2, 0, 0>>}

ExtentInputs == {DefaultExtent, <<0, 8, 0, 8, 0, 8>>}

\* Two series and a catalog, then set_interfaces and set_orientations with
\* the three mappings, rescale_data, update_structure and set_u_grade(None)
InitRescale ==
    /\ series_df = TwoSeries.series_df
    /\ series_categories = TwoSeries.series_categories
    /\ faults_df = TwoSeries.faults_df
    /\ faults_categories = TwoSeries.faults_categories
    /\ faults_relations_df = TwoSeries.faults_relations_df
    /\ n_faults = 0
    /\ formations_df = Catalog({"b"}).df
    /\ formation_categories = Catalog({"b"}).categories
    /\ formations_series_categories = Catalog({"b"}).series_categories
    /\ \E coord \in SeqsOver(CoordInputs, MaxPoints) \ {<<>>} :
          LET i0 == MappedData(coord, [i \in DOMAIN coord |-> "a"], Catalog({"b"}).df,
                               TwoSeries.series_df)
              o0 == MappedOrientations(<<Origin>>, <<UpGradient>>, <<"a">>,
                                       Catalog({"b"}).df, TwoSeries.series_df)
              g0 == SetRegularGrid(EmptyGrid, DefaultExtent, DefaultResolution)
              r == RescaleData(i0, o0, g0)
              st == StructureOf(r.interfaces, r.orientations, "ascending")
          IN  /\ interfaces_df = r.interfaces
              /\ orientations_df = r.orientations
              /\ grid = r.grid
              /\ rescaling_factor = r.rescaling_factor
              /\ centers = r.centers
              /\ structure = st
              /\ n_universal_eq = SetUGrade(st.len_series_i, NoneGrade).n_universal_eq
    /\ returned = [call |-> "none"]
    /\ solution = SolutionInit
    /\ err = "ok"

NextRescale ==
    \/ \E c \in CoordInputs : add_interface(c[1], c[2], c[3], "a")
    \/ \E idx \in Range(Index(interfaces_df)) : del_interface(idx)
    \/ \E c \in CoordInputs :
          modify_interface(Range(Index(interfaces_df)), [X |-> c[1], Y |-> c[2]])
    \/ \E extent \in ExtentInputs : set_regular_grid(extent, DefaultResolution)
    \/ rescale_data
    \/ update_structure
    \/ get_input_matrix
    \/ get_additional_data

SpecRescale == InitRescale /\ [][NextRescale]_vars

-----------------------------------------------------------------------------
(* Specification of the universal drift: the steps of the Structure         *)
(* specification and set_u_grade.                                           *)

UGradeInputs ==
    {NoneGrade, ScalarGrade(0), ScalarGrade(1), ScalarGrade(2), ListGrade(<<2>>),
     ListGrade(<<1, 2>>)}

NextDrift ==
    \/ NextStruct
    \/ \E u_grade \in UGradeInputs : set_u_grade(u_grade)

SpecDrift == InitStruct /\ [][NextDrift]_vars

-----------------------------------------------------------------------------
(* Specification of the grid: a regular grid of any of the extents and      *)
(* resolutions is set.                                                      *)

GridExtents ==
    {DefaultExtent, <<0, 6, 0, 6, 0, 6>>, <<0, 2, 1, 5, -2, 4>>, <<-3, 3, 0, 1, 2, 8>>,
     <<0, 12, 0, 4, 0, 2>>}

Resolutions == {<<nx, ny, nz>> : nx \in 1..MaxResolution, ny \in 1..MaxResolution,
                                 nz \in 1..MaxResolution}

NextGrid ==
    \E extent \in GridExtents, resolution \in Resolutions :
        set_regular_grid(extent, resolution)

SpecGrid == Init /\ [][NextGrid]_vars

-----------------------------------------------------------------------------
(* Specification of the surfaces of the interface points: points are set,   *)
(* added and modified with surface names in and out of the catalog.         *)

\* "c" is no formation of the catalog
SurfaceNames == {"a", "c"}

NextSurfaces ==
    \/ \E l \in SeqsOver(SurfaceNames, MaxPoints) :
          set_interfaces([i \in DOMAIN l |-> Origin], l)
    \/ \E s \in SurfaceNames : add_interface(Origin[1], Origin[2], Origin[3], s)
    \/ \E s \in SurfaceNames :
          modify_interface(Range(Index(interfaces_df)), [surface |-> s])
    \/ \E idx \in Range(Index(interfaces_df)) : del_interface(idx)
    \/ \E property \in {"series", "id"} : map_data_from_formations("interfaces", property)

SpecSurfaces == InitStruct /\ [][NextSurfaces]_vars

-----------------------------------------------------------------------------
(* Specification of the orientation conversions: a table of one orientation *)
(* is set from a pole vector or from angles, modified, and converted in     *)
(* both directions, on the whole table and on the row named.                *)

SurdInputs ==
    {Zero, One, MinusOne, RootHalf, Surd(-1, Frac(1, 2), 0), Surd(1, Frac(1, 4), 0),
     Surd(-1, Frac(1, 4), 0)}

\* the unit vectors whose dip and azimuth are multiples of 45 degrees
UnitGradients ==
    {g \in SurdInputs \X SurdInputs \X SurdInputs :
        /\ FracAdd(FracAdd(g[1].q, g[2].q), g[3].q) = FracOf(1)
        /\ g[1].s = 0 \/ g[2].s = 0 \/ g[1].q = g[2].q}

DipInputs == {0, 45, 90, 135, 180}

AzimuthInputs == {0, 45, 90, 135, 180, 225, 270, 315}

PolarityInputs == {One, MinusOne}

\* <<azimuth, dip, polarity>>
OrientationInputs == AzimuthInputs \X DipInputs \X PolarityInputs

IdxInputs == {NoneIdx, ScalarIdx(0), ListIdx({0})}

InitOrient ==
    /\ series_df = TwoSeries.series_df
    /\ series_categories = TwoSeries.series_categories
    /\ faults_df = TwoSeries.faults_df
    /\ faults_categories = TwoSeries.faults_categories
    /\ faults_relations_df = TwoSeries.faults_relations_df
    /\ n_faults = 0
    /\ formations_df = Catalog({"b"}).df
    /\ formation_categories = Catalog({"b"}).categories
    /\ formations_series_categories = Catalog({"b"}).series_categories
    /\ orientations_df = <<>>
    /\ interfaces_df = <<>>
    /\ structure = StructureOf(<<>>, <<>>, "ascending")
    /\ RescaleInit
    /\ err = "ok"

NextOrient ==
    \/ \E g \in UnitGradients : set_orientations(<<Origin>>, PoleVector(<<g>>), <<"a">>)
    \/ \E o \in OrientationInputs :
          set_orientations(<<Origin>>, Orientation(<<o>>), <<"a">>)
    \/ \E idx \in IdxInputs : calculate_orientations(idx)
    \/ \E idx \in IdxInputs : calculate_gradient(idx)
    \/ \E idx \in IdxInputs \ {NoneIdx}, g \in UnitGradients :
          modify_orientation(idx, [G_x |-> g[1], G_y |-> g[2], G_z |-> g[3]])
    \/ \E idx \in IdxInputs \ {NoneIdx}, dip \in DipInputs :
          modify_orientation(idx, [dip |-> dip])

SpecOrient == InitOrient /\ [][NextOrient]_vars

-----------------------------------------------------------------------------
(* Specification of the two representations: a table of one orientation is  *)
(* set from a pole vector, from angles or from both, and its row is         *)
(* modified in gradient components, in angles, in both and in neither.      *)

\* the unit gradients in the plane of X and Z
PlaneGradients == {g \in UnitGradients : g[2].s = 0}

PlaneOrientations == {0, 270} \X {45, 90} \X PolarityInputs

\* the pole vectors and the orientation given to set_orientations together
BothGradients == {UpGradient, <<MinusOne, Zero, Zero>>}

BothInputs == {<<90, 90, MinusOne>>}

\* keyword arguments of modify_orientation that name a gradient component
\* together with angles
MixedKwargs ==
    {[G_z |-> RootHalf, dip |-> 90], [G_z |-> MinusOne, azimuth |-> 180, polarity |-> MinusOne]}

\* keyword arguments of modify_orientation that name neither a gradient
\* component nor an angle
PlainKwargs == {[X |-> 2, surface |-> "b"]}

\* the keyword arguments given to modify_orientation
ModifyKwargs ==
    {[G_x |-> g[1], G_y |-> g[2], G_z |-> g[3]] : g \in PlaneGradients}
    \cup {[dip |-> dip] : dip \in DipInputs}
    \cup {[azimuth |-> 90, polarity |-> MinusOne]}
    \cup MixedKwargs \cup PlainKwargs

NextAuthority ==
    \/ \E g \in PlaneGradients : set_orientations(<<Origin>>, PoleVector(<<g>>), <<"a">>)
    \/ \E g \in BothGradients, o \in BothInputs :
          set_orientations(<<Origin>>, PoleVectorAndOrientation(<<g>>, <<o>>), <<"a">>)
    \/ \E o \in PlaneOrientations :
          set_orientations(<<Origin>>, Orientation(<<o>>), <<"a">>)
    \/ \E idx \in IdxInputs \ {NoneIdx}, kwargs \in ModifyKwargs :
          modify_orientation(idx, kwargs)

SpecAuthority == InitOrient /\ [][NextAuthority]_vars

-----------------------------------------------------------------------------
(* Specification of the modifications: tables of up to two points and two   *)
(* orientations, modified at all of their rows, at some, and at rows they   *)
(* do not have.                                                             *)

\* the sets of labels given as idx
LabelInputs == (SUBSET {0, 1, 2}) \ {{}}

InterfaceKwargs == {[X |-> 2], [surface |-> "b"], [Y |-> 1, Z |-> 2]}

OrientationKwargs == {[X |-> 2], [surface |-> "b"], [dip |-> 90]}

NextModify ==
    \/ \E l \in SeqsOver(SurfaceInputs, MaxPoints) :
          set_interfaces([i \in DOMAIN l |-> Origin], l)
    \/ \E l \in SeqsOver({"a"}, MaxPoints) :
          set_orientations([i \in DOMAIN l |-> Origin],
                           PoleVector([i \in DOMAIN l |-> UpGradient]), l)
    \/ \E idx \in LabelInputs, kwargs \in InterfaceKwargs : modify_interface(idx, kwargs)
    \/ \E idx \in LabelInputs, kwargs \in OrientationKwargs :
          modify_orientation(ListIdx(idx), kwargs)

SpecModify == InitOrient /\ [][NextModify]_vars

-----------------------------------------------------------------------------
(* Specification of the Solution: over a catalog of two surfaces and the    *)
(* basement, with no fault or with one, values are set and surfaces are     *)
(* computed while the basement is moved and surfaces are deleted and        *)
(* renamed.                                                                 *)

\* scalar fields on a grid of two cells
ScalarFields == {<<1, 3>>, <<2, 2>>}

\* the scalar field at the interfaces of two surfaces, in one row and in one
\* row per series
InterfaceFields == {<<<<0, 2>>>>, <<<<2, 0>>, <<0, 4>>>>}

\* the values that compute_model returns: the block and the field of the
\* lithologies, the blocks and fields of no fault or of one, and the field at
\* the interfaces
ValuesInputs ==
    {[lith |-> <<f, f>>, faults |-> ff, scalar_field_at_interfaces |-> sfai] :
        f \in ScalarFields, ff \in {<<>>, <<<<1, 3>>, <<1, 3>>>>}, sfai \in InterfaceFields}

InitSolution ==
    /\ series_df = TwoSeries.series_df
    /\ series_categories = TwoSeries.series_categories
    /\ faults_categories = TwoSeries.faults_categories
    /\ faults_relations_df = TwoSeries.faults_relations_df
    /\ \E series_fault \in {SeriesFault({}), SeriesFault({"A"})} :
          /\ faults_df = SetIsFault(TwoSeries.faults_df, 0, series_fault).df
          /\ n_faults = SetIsFault(TwoSeries.faults_df, 0, series_fault).n_faults
    /\ formations_df = Catalog({"b"}).df
    /\ formation_categories = Catalog({"b"}).categories
    /\ formations_series_categories = Catalog({"b"}).series_categories
    /\ DataInit
    /\ err = "ok"

\* the values of a model of two surfaces in two series
TwoSeriesValues ==
    {v \in ValuesInputs : v.lith[2] = <<1, 3>> /\ Len(v.scalar_field_at_interfaces) = 2}

NextSolution ==
    \/ \E n \in FormationNames : set_basement(n)
    \/ \E k \in 0..MaxLabel : delete_formation({k})
    \/ set_formation_names_pro(<<"c", "basement">>)
    \/ \E values \in TwoSeriesValues, compute_mesh \in BOOLEAN, found \in BOOLEAN :
          set_values(values, compute_mesh, found)
    \/ \E found \in BOOLEAN : compute_all_surfaces(found)

SpecSolution == InitSolution /\ [][NextSolution]_vars

\* the isovalue of a surface against a scalar field: values are set and single
\* surfaces are computed
NextClamp ==
    \/ \E values \in ValuesInputs : set_values(values, FALSE, TRUE)
    \/ \E surface_id \in -1..2, scalar_field \in ScalarFields, found \in BOOLEAN :
          compute_surface_regular_grid(surface_id, scalar_field, found)

SpecClamp == InitSolution /\ [][NextClamp]_vars

-----------------------------------------------------------------------------
(* Properties of Series and Faults *)

OrderSeries(df) == [i \in DOMAIN df |-> df[i].order_series]

IsSquare(rel) ==
    /\ Len(rel.values) = Len(rel.index)
    /\ \A i \in DOMAIN rel.values : Len(rel.values[i]) = Len(rel.columns)
    /\ Len(rel.index) = Len(rel.columns)

\* the relation matrix is square, labelled alike on both axes, and labelled
\* like Series.df
Aligned(t) ==
    /\ IsSquare(t.faults_relations_df)
    /\ t.faults_relations_df.index = t.faults_relations_df.columns
    /\ t.faults_relations_df.index = Index(t.series_df)

\* add C, rename B to B2, delete A
ExampleSequence(t) ==
    DeleteSeriesTables(
        RenameSeriesTables(AddSeriesTables(t, <<"C">>),
                           [kind |-> "dict", old |-> "B", new |-> "B2"]),
        {"A"})

\* C1: from a Series and a Faults that share their index, after any sequence
\* of add_series, rename_series, reorder_series, delete_series (and
\* set_series_index) the fault relation matrix is square, its row labels
\* equal its column labels and both equal the Series index in order; and from
\* series [A, B], adding C, renaming B to B2 and deleting A gives a 2x2 matrix
\* indexed exactly [B2, C].
C1_RelationMatrixAligned ==
    /\ Aligned(Tables)
    /\ Index(series_df) = <<"A", "B">> =>
          LET e == ExampleSequence(Tables)
          IN  /\ e.err = "ok"
              /\ Aligned(e)
              /\ e.faults_relations_df.index = <<"B2", "C">>
              /\ Len(e.faults_relations_df.values) = 2

C1_Witness ==
    /\ err = "ok"
    /\ Index(series_df) = <<"B2", "C">>
    /\ faults_relations_df.columns = <<"B2", "C">>

\* C2: the index of Series.df, of Faults.df and both axes of the relation
\* matrix are identical at all times, also right after
\* Series(faults, series_order) with a series_order other than the default.
C2_IndexIdentity ==
    /\ Index(faults_df) = Index(series_df)
    /\ faults_relations_df.index = Index(series_df)
    /\ faults_relations_df.columns = Index(series_df)

\* C6: after any sequence of set_series_index, add_series, delete_series,
\* rename_series and reorder_series, the series at row position i (0-based)
\* has order_series i+1.
C6_OrderSeriesIsRank ==
    [][(Next /\ err' = "ok") =>
          \A i \in DOMAIN series_df' : series_df'[i].order_series = i]_vars

-----------------------------------------------------------------------------
(* Properties of Formations *)

Surfaces == Range(FormationColumn(formations_df))

\* C3: after any sequence of add_formation, delete_formation, add_basement,
\* sort_formations and set_formation_names_pro, every surface's id equals its
\* row position plus 1 (the ids are exactly 1..n).
C3_IdIsRowPosition ==
    [][(/\ \/ \E l \in UniqueSeqs(FormationNames, MaxList) : add_formation(l)
           \/ \E k \in 0..MaxLabel : delete_formation({k})
           \/ add_basement("basement")
           \/ sort_formations
           \/ \E l \in UniqueSeqs(FormationNames, MaxList) : set_formation_names_pro(l)
        /\ err' = "ok")
       => \A i \in DOMAIN formations_df' : formations_df'[i].id = i]_vars

\* C4: in every state reached by add_formation, set_basement, add_basement
\* and delete_formation (and the other calls on Formations), whether or not a
\* call raised, at most one surface has isBasement true.
C4_AtMostOneBasement == BasementCount(formations_df) <= 1

C4_Witness ==
    /\ err = "ok"
    /\ Len(formations_df) = 2
    /\ BasementCount(formations_df) = 1

\* C5: marking a surface as basement when none exists succeeds and leaves
\* exactly one basement; marking a second one while one exists, by
\* set_basement with another surface or by add_basement, raises the
\* AssertionError and leaves the surfaces table unchanged.
C5_SecondBasementRejected ==
    [][/\ \A n \in FormationNames :
            (/\ set_basement(n)
             /\ BasementCount(formations_df) = 0
             /\ n \in Surfaces)
            => (err' = "ok" /\ BasementCount(formations_df') = 1)
       /\ \A n \in FormationNames :
            (/\ set_basement(n)
             /\ BasementCount(formations_df) = 1
             /\ n \in Surfaces \ BasementNames(formations_df))
            => (err' = "AssertionError" /\ UNCHANGED formationsVars)
       /\ (add_basement("basement") /\ BasementCount(formations_df) = 1)
            => (err' = "AssertionError" /\ UNCHANGED formationsVars)]_vars

\* C7: after any rename_series or delete_series, every surface of
\* Formations.df is assigned to a series that is a member of the current
\* Series index.
C7_SurfacesFollowSeries ==
    [][(SeriesMutation /\ err' = "ok")
       => \A i \in DOMAIN formations_df' :
             Contains(Index(series_df'), formations_df'[i].series)]_vars

-----------------------------------------------------------------------------
(* Properties of Structure *)

Populated(df) == \A i \in DOMAIN df : df[i].id # NaN /\ df[i].order_series # NaN

\* C8: whenever update_structure runs on an Interfaces table whose id and
\* order_series columns hold no NaN, the entries of len_formations_i sum to
\* the number of interface points and so do the entries of len_series_i.
C8_CountsSumToPoints ==
    [][(update_structure /\ Populated(interfaces_df))
          => /\ SumSeq(structure'.len_formations_i) = Len(interfaces_df)
             /\ SumSeq(structure'.len_series_i) = Len(interfaces_df)]_vars

\* a Structure built from a populated table of two points on two surfaces
C8_Witness ==
    /\ Populated(interfaces_df)
    /\ Len(interfaces_df) = 2
    /\ structure = StructureOf(interfaces_df, orientations_df, "ascending")
    /\ structure.len_formations_i = <<1, 1>>
    /\ SumSeq(structure.len_series_i) = 2

\* the row position (from 1) of the first interface point whose id is k
FirstRowOf(df, k) ==
    CHOOSE i \in DOMAIN df : df[i].id = k /\ \A j \in 1..(i - 1) : df[j].id # k

\* C9: after update_structure, for the k-th surface in id order that has
\* interface points, ref_position[k] is the row position (from 0) of the first
\* interface point of that surface, whatever the row order of the table.
C9_RefPositionAligned ==
    [][update_structure
          => LET ids == Ascending(FirstAppearance(IdColumnOf(interfaces_df)))
             IN  \A k \in DOMAIN ids :
                    /\ k <= Len(structure'.ref_position)
                    /\ structure'.ref_position[k] = FirstRowOf(interfaces_df, ids[k]) - 1]_vars

NonDecreasing(s) == \A i \in 1..(Len(s) - 1) : s[i] <= s[i + 1]

\* C10 as stated: after update_structure, nfs is non-decreasing and its last
\* element is the number of distinct surfaces of the Formations catalog, also
\* when some surface has no interface point.
C10_NfsCountsCatalog ==
    [][update_structure
          => /\ NonDecreasing(structure'.nfs)
             /\ Len(structure'.nfs) > 0
                   => structure'.nfs[Len(structure'.nfs)]
                         = Cardinality(Range(FormationColumn(formations_df)))]_vars

\* the (order_series, surface) pairs of the interface points that have an
\* order_series
SeriesSurfacePairs(df) ==
    {<<df[i].order_series, df[i].surface>> :
        i \in {j \in DOMAIN df : df[j].order_series # NaN}}

\* C10 amended: after update_structure, nfs is non-decreasing, it is empty
\* exactly when no interface point has an order_series, and otherwise its last
\* element is the number of distinct surfaces that have an interface point,
\* counted once per series they have points in; surfaces of the catalog
\* without interface points are not counted.
C10_NfsCountsSurfacesWithPoints ==
    [][update_structure
          => /\ NonDecreasing(structure'.nfs)
             /\ Len(structure'.nfs) = 0 <=> SeriesSurfacePairs(interfaces_df) = {}
             /\ Len(structure'.nfs) > 0
                   => structure'.nfs[Len(structure'.nfs)]
                         = Cardinality(SeriesSurfacePairs(interfaces_df))]_vars

\* a Structure built from points on two surfaces of two series, fewer than
\* the three surfaces of the catalog
C10_Witness ==
    /\ structure.nfs = <<1, 2>>
    /\ structure = StructureOf(interfaces_df, orientations_df, "ascending")
    /\ Cardinality(SeriesSurfacePairs(interfaces_df)) = 2
    /\ Len(formations_df) = 3

\* the number of rows of df that belong to each series of the Series index,
\* in the order of that index
CountPerSeries(df, sdf) ==
    [i \in DOMAIN sdf |->
        Cardinality({j \in DOMAIN df : df[j].order_series = sdf[i].order_series})]

\* C11: building the Structure does not raise and, when the points are
\* mapped, len_series_i (for the interfaces) and len_series_o (for the
\* orientations) have one entry per series of the Series index, 0 at the
\* position of a series without points.
C11_EmptySeriesCounted ==
    [][update_structure
          => /\ err' = "ok"
             /\ (Populated(interfaces_df) /\ Len(interfaces_df) > 0)
                   => structure'.len_series_i = CountPerSeries(interfaces_df, series_df)
             /\ (Populated(orientations_df) /\ Len(orientations_df) > 0)
                   => structure'.len_series_o = CountPerSeries(orientations_df, series_df)]_vars

-----------------------------------------------------------------------------
(* Properties of the rescaling *)

\* the rescaled columns of the tables are not what rescale_data gives on the
\* tables as they stand; under SpecRescale, whose initial tables are freshly
\* rescaled, this is the case only after add_interface, del_interface or
\* modify_interface has changed the table since the last rescale_data
RescaledStale ==
    LET r == RescaleData(interfaces_df, orientations_df, grid)
    IN  interfaces_df # r.interfaces \/ orientations_df # r.orientations

\* the Structure arrays are not what update_structure gives on the tables as
\* they stand
StructureStale ==
    \A order \in ValueCountOrders :
        structure # StructureOf(interfaces_df, orientations_df, order)

\* C12: when add_interface, del_interface or modify_interface has changed the
\* tables since the last rescale_data / update_structure, a read of the
\* rescaled columns through get_input_matrix, or of the Structure arrays, is
\* refused: it raises instead of returning the old values.
C12_StaleReadRefused ==
    [][/\ (get_input_matrix /\ RescaledStale) => err' # "ok"
       /\ (get_additional_data /\ StructureStale) => err' # "ok"]_vars

\* the factor f and centers c are the ones of the points of the tables, and
\* every interface row carries the rescaled coordinates they give
RescalingCurrent(interfaces, orientations, g, f, c) ==
    LET r == RescaleData(interfaces, orientations, g)
    IN  /\ f = r.rescaling_factor
        /\ c = r.centers
        /\ interfaces = r.interfaces

\* C13: after every add_interface or del_interface that succeeds,
\* rescaling_factor and centers are the values computed from the current
\* points and every interface row has X_r, Y_r, Z_r equal to
\* (x - center) / rescaling_factor + 0.5001.
C13_RescaledAfterInsertOrDelete ==
    [][(/\ err' = "ok"
        /\ \/ \E c \in CoordInputs : add_interface(c[1], c[2], c[3], "a")
           \/ \E idx \in Range(Index(interfaces_df)) : del_interface(idx))
          => RescalingCurrent(interfaces_df', orientations_df', grid',
                              rescaling_factor', centers')]_vars

\* 0 < q < 1
InUnit(q) == FracLt(FracOf(0), q) /\ FracLt(q, FracOf(1))

\* every rescaled value of the tables and of the grid g lies strictly inside
\* the unit interval
RescaledInsideUnit(interfaces, orientations, g) ==
    /\ \A i \in DOMAIN interfaces :
          InUnit(interfaces[i].X_r) /\ InUnit(interfaces[i].Y_r) /\ InUnit(interfaces[i].Z_r)
    /\ \A i \in DOMAIN orientations :
          InUnit(orientations[i].X_r) /\ InUnit(orientations[i].Y_r)
              /\ InUnit(orientations[i].Z_r)
    /\ \A i \in DOMAIN g.values_r, k \in 1..3 : InUnit(g.values_r[i][k])
    /\ \A i \in DOMAIN g.extent_r : InUnit(g.extent_r[i])

\* C14: every value that rescale_data produces with the computed factor and
\* center lies strictly between 0 and 1: the X_r, Y_r, Z_r of every interface
\* and orientation point, every rescaled grid point and every rescaled edge
\* of the grid extent, whatever the extent.
C14_RescaledInsideUnitInterval ==
    [][rescale_data => RescaledInsideUnit(interfaces_df', orientations_df', grid')]_vars

-----------------------------------------------------------------------------
(* Properties of the universal drift *)

\* the number of drift equations of a degree
DriftEquations(degree) == IF degree = 1 THEN 3 ELSE IF degree = 2 THEN 9 ELSE 0

\* one entry per series of the Series index: the equations of the degree
\* asked for the series or, with None, of degree 1 where the series has more
\* than one interface point and of degree 0 elsewhere
ExpectedEquations(u_grade) ==
    [i \in DOMAIN series_df |->
        DriftEquations(
            IF u_grade.kind = "None"
            THEN (IF CountPerSeries(interfaces_df, series_df)[i] > 1 THEN 1 ELSE 0)
            ELSE IF u_grade.kind = "scalar" THEN u_grade.value
            ELSE u_grade.value[i])]

\* C15: on an up-to-date Structure of mapped points, set_u_grade(None) and
\* set_u_grade with one degree per series succeed and leave one entry per
\* series in n_universal_eq: 0, 3 or 9 equations for degree 0, 1 or 2, and
\* with None 3 equations exactly for the series with more than one interface
\* point.
C15_DriftEquationsPerSeries ==
    [][\A u_grade \in UGradeInputs :
          (/\ u_grade.kind = "list" => Len(u_grade.value) = Len(series_df)
           /\ Len(interfaces_df) > 0
           /\ Populated(interfaces_df)
           /\ ~StructureStale
           /\ set_u_grade(u_grade))
             => /\ err' = "ok"
                /\ n_universal_eq' = ExpectedEquations(u_grade)]_vars

-----------------------------------------------------------------------------
(* Properties of the grid *)

\* the centre of cell i of n along the axis from lo to hi
CellCentre(lo, hi, n, i) ==
    FracAdd(lo, FracMul(FracSub(hi, lo), Frac(2 * i - 1, 2 * n)))

\* C16: the values of a regular grid are the nx*ny*nz cell centres of its
\* extent: along each axis the coordinates run from min + (max-min)/(2 n) to
\* max - (max-min)/(2 n) with n the resolution of that axis, and the rows are
\* ordered with X varying slowest and Z fastest.
C16_GridOfCellCentres ==
    LET nx == grid.resolution[1]
        ny == grid.resolution[2]
        nz == grid.resolution[3]
    IN  /\ Len(grid.values) = nx * ny * nz
        /\ \A ix \in 1..nx, iy \in 1..ny, iz \in 1..nz :
              grid.values[(ix - 1) * ny * nz + (iy - 1) * nz + iz]
                 = <<CellCentre(grid.extent[1], grid.extent[2], nx, ix),
                     CellCentre(grid.extent[3], grid.extent[4], ny, iy),
                     CellCentre(grid.extent[5], grid.extent[6], nz, iz)>>

-----------------------------------------------------------------------------
(* Properties of the surfaces of the points *)

\* C17: every surface named by a row of the Interfaces table is a formation
\* of the catalog: set_interfaces, add_interface and modify_interface reject
\* a surface name that is not in Formations.
C17_SurfacesInCatalog ==
    \A i \in DOMAIN interfaces_df :
        \E j \in DOMAIN formations_df :
            interfaces_df[i].surface = formations_df[j].formation

-----------------------------------------------------------------------------
(* Properties of the orientation conversions *)

\* equal within tolerance: the same value but for the 1e-12 offsets
ApproxEq(a, b) == a.s = b.s /\ a.q = b.q

\* the angles of every row are the ones calculate_orientations() computes
\* from its gradient, and the gradient is a unit vector
AnglesFromGradient(df) ==
    /\ df = CalculateOrientations(df, NoneIdx).df
    /\ \A i \in DOMAIN df :
          \E g \in UnitGradients :
             ApproxEq(df[i].G_x, g[1]) /\ ApproxEq(df[i].G_y, g[2])
                /\ ApproxEq(df[i].G_z, g[3])

\* C18: when the angles of the table have been computed from unit gradients
\* by calculate_orientations(), calculate_gradient() reproduces every
\* gradient within tolerance, also the ones with negative G_z and the ones
\* with dip below 0.001, whose azimuth is 0.
C18_GradientRoundTrip ==
    [][(calculate_gradient(NoneIdx) /\ AnglesFromGradient(orientations_df))
          => \A i \in DOMAIN orientations_df :
                /\ ApproxEq(orientations_df'[i].G_x, orientations_df[i].G_x)
                /\ ApproxEq(orientations_df'[i].G_y, orientations_df[i].G_y)
                /\ ApproxEq(orientations_df'[i].G_z, orientations_df[i].G_z)]_vars

\* a gradient with negative G_z has been through both conversions: its
\* angles are the ones of the gradient and its components carry the offset
\* of calculate_gradient
C18_Witness ==
    /\ err = "ok"
    /\ Len(orientations_df) > 0
    /\ AnglesFromGradient(orientations_df)
    /\ \E i \in DOMAIN orientations_df :
          /\ orientations_df[i].G_z.s = -1
          /\ orientations_df[i].G_z.e = 1
          /\ orientations_df[i].G_x.s # 0
          /\ orientations_df[i].dip > 90

\* the gradient of every row is the one calculate_gradient() computes from
\* its angles, and the angles are a dip in [0, 180], an azimuth in [0, 360)
\* and a polarity of 1 or -1
GradientFromAngles(df) ==
    /\ df = CalculateGradient(df, NoneIdx).df
    /\ \A i \in DOMAIN df :
          /\ df[i].dip \in DipInputs
          /\ df[i].azimuth \in AzimuthInputs
          /\ df[i].polarity \in PolarityInputs

\* C19: when the gradients of the table have been computed from the angles
\* by calculate_gradient(), calculate_orientations() returns the same dip,
\* azimuth and polarity for every row, for either polarity.
C19_OrientationRoundTrip ==
    [][(calculate_orientations(NoneIdx) /\ GradientFromAngles(orientations_df))
          => \A i \in DOMAIN orientations_df :
                /\ orientations_df'[i].dip = orientations_df[i].dip
                /\ orientations_df'[i].azimuth = orientations_df[i].azimuth
                /\ orientations_df'[i].polarity = orientations_df[i].polarity]_vars

\* the gradient of every row is a unit vector
UnitGradientRows(df) ==
    \A i \in DOMAIN df :
        \E g \in UnitGradients :
            ApproxEq(df[i].G_x, g[1]) /\ ApproxEq(df[i].G_y, g[2])
               /\ ApproxEq(df[i].G_z, g[3])

\* C20: calculate_orientations succeeds on the whole table (idx = None) and
\* on the rows named (one label or a list of labels), every azimuth it
\* computes lies in [0, 360) and is 0 where the dip is below 0.001, and the
\* rows named come out as on the whole-table path.
C20_AzimuthNormalised ==
    [][\A idx \in IdxInputs :
          (/\ Len(orientations_df) > 0
           /\ UnitGradientRows(orientations_df)
           /\ calculate_orientations(idx))
             => /\ err' = "ok"
                /\ orientations_df' = CalculateOrientations(orientations_df, NoneIdx).df
                /\ \A i \in DOMAIN orientations_df' :
                      /\ 0 <= orientations_df'[i].azimuth
                      /\ orientations_df'[i].azimuth < 360
                      /\ FracLt(FracOf(orientations_df'[i].dip), Frac(1, 1000))
                            => orientations_df'[i].azimuth = 0]_vars

-----------------------------------------------------------------------------
(* Properties of the two representations of an orientation *)

GradientKeys == {"G_x", "G_y", "G_z"}

AngleKeys == {"dip", "azimuth", "polarity"}

\* the same orientation: the same polarity and dip and, but for a dip of 0
\* where the azimuth says nothing, the same azimuth as an angle
SameOrientation(a, b) ==
    /\ a.polarity = b.polarity
    /\ a.dip = b.dip
    /\ a.dip = 0 \/ a.azimuth % 360 = b.azimuth % 360

\* the angles of every row are the ones its gradient gives
AnglesFollowGradient(df) ==
    \A i \in DOMAIN df : SameOrientation(df[i], ShiftAzimuth(AnglesOfGradient(df[i])))

\* the gradient of every row is the one its angles give
GradientFollowsAngles(df) == df = CalculateGradient(df, NoneIdx).df

\* the value of property k in every row of df is the one kwargs gives
Holds(df, kwargs, k) == \A i \in DOMAIN df : df[i][k] = kwargs[k]

\* property k has in every row of new the value it has in old
Kept(old, new, k) ==
    /\ Len(new) = Len(old)
    /\ \A i \in DOMAIN old : new[i][k] = old[i][k]

\* what modify_orientation(idx, kwargs) leaves of a table whose rows are the
\* rows named
AuthoritativeAfterModify(old, new, kwargs) ==
    /\ \A k \in GradientKeys \cap DOMAIN kwargs : Holds(new, kwargs, k)
    /\ \A k \in GradientKeys \ DOMAIN kwargs :
          GradientKeys \cap DOMAIN kwargs # {} => Kept(old, new, k)
    /\ GradientKeys \cap DOMAIN kwargs # {} => AnglesFollowGradient(new)
    /\ (GradientKeys \cap DOMAIN kwargs = {} /\ AngleKeys \cap DOMAIN kwargs # {})
          => /\ \A k \in AngleKeys \cap DOMAIN kwargs : Holds(new, kwargs, k)
             /\ \A k \in AngleKeys \ DOMAIN kwargs : Kept(old, new, k)
             /\ GradientFollowsAngles(new)
    /\ (GradientKeys \cup AngleKeys) \cap DOMAIN kwargs = {}
          => \A k \in GradientKeys \cup AngleKeys : Kept(old, new, k)

\* C21: one representation is authoritative and the other is recomputed from
\* it.  set_orientations with a pole vector, alone or with an orientation,
\* keeps the gradient and computes dip, azimuth and polarity from it; with an
\* orientation alone it keeps the angles and computes the gradient from them.
\* modify_orientation on the rows of the table computes the angles from the
\* gradient when a gradient component is given, alone or with angles, the
\* gradient from the angles when only angles are given, and changes neither
\* when only X, Y, Z or surface are given.
C21_OneRepresentationAuthoritative ==
    [][/\ \A given \in {PoleVector(<<g>>) : g \in PlaneGradients}
                      \cup {PoleVectorAndOrientation(<<g>>, <<o>>) :
                               g \in BothGradients, o \in BothInputs} :
             set_orientations(<<Origin>>, given, <<"a">>)
                => /\ Len(orientations_df') = 1
                   /\ <<orientations_df'[1].G_x, orientations_df'[1].G_y,
                        orientations_df'[1].G_z>> = given.rows[1]
                   /\ AnglesFollowGradient(orientations_df')
       /\ \A o \in PlaneOrientations :
             set_orientations(<<Origin>>, Orientation(<<o>>), <<"a">>)
                => /\ Len(orientations_df') = 1
                   /\ <<orientations_df'[1].azimuth, orientations_df'[1].dip,
                        orientations_df'[1].polarity>> = o
                   /\ GradientFollowsAngles(orientations_df')
       /\ \A idx \in IdxInputs \ {NoneIdx}, kwargs \in ModifyKwargs :
             (/\ Len(orientations_df) > 0
              /\ modify_orientation(idx, kwargs))
                => AuthoritativeAfterModify(orientations_df, orientations_df', kwargs)]_vars

\* the vertical component of an upward gradient was replaced together with a
\* dip of 90: the dip is the one of the new gradient, on a point moved to
\* surface "b"
C21_Witness ==
    /\ Len(orientations_df) = 1
    /\ orientations_df[1].G_z = RootHalf
    /\ orientations_df[1].G_x = Zero
    /\ orientations_df[1].G_y = Zero
    /\ orientations_df[1].dip = 45
    /\ orientations_df[1].surface = "b"

-----------------------------------------------------------------------------
(* Properties of the Solution *)

\* the names of the surfaces of the catalog that are not the basement
NonBasementNames(fdf) == {fdf[i].formation : i \in {j \in DOMAIN fdf : fdf[j].isBasement # 1}}

\* C22: after compute_all_surfaces has returned, wherever the basement stands
\* in the catalog and with or without faults, the keys of Solution.vertices
\* and of Solution.edges are exactly the names of the surfaces of the current
\* catalog that are not the basement, also when surfaces were deleted or
\* renamed since an earlier computation.
C22_BasementNeverExtracted ==
    [][(/\ \E found \in BOOLEAN : compute_all_surfaces(found)
        /\ err' = "ok")
          => /\ DOMAIN solution'.vertices = NonBasementNames(formations_df)
             /\ DOMAIN solution'.edges = NonBasementNames(formations_df)]_vars

\* C23: compute_surface_regular_grid on a surface that has an isovalue passes
\* a level inside the range of the scalar field to the extraction: an
\* isovalue above the maximum becomes the maximum and one below the minimum
\* becomes the minimum, each with a message, an isovalue strictly inside the
\* range is passed as it is, the extraction does not refuse the level, and
\* the stored scalar_field_at_interfaces stays as it was.
C23_IsovalueClamped ==
    [][\A surface_id \in 0..1, scalar_field \in ScalarFields, found \in BOOLEAN :
          (/\ compute_surface_regular_grid(surface_id, scalar_field, found)
           /\ surface_id + 1 <= Len(PotInt(solution.scalar_field_at_interfaces)))
             => LET pot == PotInt(solution.scalar_field_at_interfaces)[surface_id + 1]
                    max == FieldMax(scalar_field)
                    min == FieldMin(scalar_field)
                    level == returned'.level
                IN  /\ min <= level /\ level <= max
                    /\ pot > max => (level = max /\ returned'.warned)
                    /\ pot < min => (level = min /\ returned'.warned)
                    /\ (min < pot /\ pot < max) => level = pot
                    /\ err' # "ValueError"
                    /\ solution'.scalar_field_at_interfaces
                          = solution.scalar_field_at_interfaces]_vars

\* an isovalue of 4 against a field from 1 to 3 was passed on as 3, with a
\* message, and the mesh was returned
C23_Witness ==
    /\ returned.call = "compute_surface_regular_grid"
    /\ PotInt(solution.scalar_field_at_interfaces) = <<2, 4>>
    /\ returned.level = 3
    /\ returned.warned
    /\ returned.mesh = <<1, 3>>
    /\ err = "ok"

-----------------------------------------------------------------------------
(* Properties of the fault relations *)

\* rows is an n x n matrix
IsNByN(rows, n) == Len(rows) = n /\ \A i \in DOMAIN rows : Len(rows[i]) = n

\* C24: set_fault_relation with a matrix that is not n x n for the n current
\* series raises and leaves faults_relations_df as it was; with
\* rel_matrix=None it succeeds and sets an n x n matrix of False whose rows
\* and columns are labelled by the current series index.
C24_MisalignedMatrixRejected ==
    [][\A rel_matrix \in MatrixInputs :
          set_fault_relation(rel_matrix)
             => /\ (rel_matrix.kind # "None" /\ ~IsNByN(rel_matrix.rows, Len(series_df)))
                      => (err' # "ok" /\ faults_relations_df' = faults_relations_df)
                /\ rel_matrix.kind = "None"
                      => /\ err' = "ok"
                         /\ faults_relations_df'.index = Index(series_df)
                         /\ faults_relations_df'.columns = Index(series_df)
                         /\ faults_relations_df'.values
                               = [i \in DOMAIN series_df |-> [j \in DOMAIN series_df |-> 0]]]_vars

\* with the series 'Default series' and 'A' and the relation set to A offset
\* by 'Default series', a matrix of another shape has just been refused
C24_Witness ==
    /\ err = "ValueError"
    /\ Index(series_df) = <<DefaultSeries, "A">>
    /\ faults_relations_df.index = <<DefaultSeries, "A">>
    /\ faults_relations_df.values = <<<<0, 1>>, <<0, 0>>>>

\* the square matrix rows holds a cycle: indices p[1], .., p[k] with each
\* offsetting the next and the last offsetting the first (k = 1 is a series
\* offsetting itself)
HasCycle(rows) ==
    \E p \in SeqsOver(DOMAIN rows, Len(rows)) :
        /\ Len(p) >= 1
        /\ \A k \in DOMAIN p : rows[p[k]][p[(k % Len(p)) + 1]] # 0

\* C25: a series cannot offset itself: in every state reached through
\* set_fault_relation, add_series, set_series_index, rename_series,
\* reorder_series and delete_series every diagonal entry of the fault relation
\* matrix is False, and set_fault_relation refuses a matrix that holds a cycle
\* and leaves the relations as they were.
C25_NoSelfOffsetNoCycle ==
    /\ [](\A i \in DOMAIN faults_relations_df.values :
             i <= Len(faults_relations_df.values[i])
                => faults_relations_df.values[i][i] = 0)
    /\ [][\A rel_matrix \in MatrixInputs :
             (/\ set_fault_relation(rel_matrix)
              /\ rel_matrix.kind = "ndarray"
              /\ IsNByN(rel_matrix.rows, Len(rel_matrix.rows))
              /\ HasCycle(rel_matrix.rows))
                => (err' # "ok" /\ faults_relations_df' = faults_relations_df)]_vars

\* the row of df labelled c
RowOf(df, c) == df[PosOf(Index(df), c)]

\* the cell of the relation matrix in the row labelled c and the column
\* labelled d
RelationOf(rel, c, d) == rel.values[PosOf(rel.index, c)][PosOf(rel.columns, d)]

\* C26: reorder_series moves the data of every series with its name: for
\* every series name the isFault flag, the BottomRelation and the row and the
\* column of the fault relation matrix, read by name, are after the call what
\* they were before; only the order of rows and columns changes.
C26_ReorderKeepsDataWithName ==
    [][\A l \in Orderings(series_categories) :
          (/\ reorder_series(l)
           /\ err' = "ok"
           /\ IsUnique(Index(series_df)))
             => /\ Range(Index(series_df')) = Range(Index(series_df))
                /\ \A c \in Range(Index(series_df)) :
                      /\ RowOf(faults_df', c).isFault = RowOf(faults_df, c).isFault
                      /\ RowOf(series_df', c).BottomRelation
                            = RowOf(series_df, c).BottomRelation
                      /\ \A d \in Range(Index(series_df)) :
                            RelationOf(faults_relations_df', c, d)
                               = RelationOf(faults_relations_df, c, d)]_vars

\* the number of series whose isFault flag is true
NumberOfFaults(fdf) == Cardinality({i \in 1..Len(fdf) : fdf[i].isFault = 1})

\* C28: n_faults is the number of series whose isFault flag is true in the
\* frame of Faults, right after the construction of Faults and after every
\* call that adds, deletes or flags series.
C28_NFaultsCountsFaultSeries == n_faults = NumberOfFaults(faults_df)

-----------------------------------------------------------------------------
(* Properties of the shared structure *)

\* the keys of the series that have interface points, ascending
SeriesKeys(df) == Ascending(FirstAppearance(OrderSeriesColumnOf(df)))

\* the interface points of the first k series that have points, less one
\* reference point for each surface of those series
RestPoints(df, k) ==
    LET keys == SeriesKeys(df)
        first == {keys[i] : i \in 1..k}
    IN  Cardinality({j \in DOMAIN df : df[j].order_series \in first})
           - Cardinality({p \in SeriesSurfacePairs(df) : p[1] \in first})

Last(s) == s[Len(s)]

\* C29: with a Structure built from the mapped points as they stand, the
\* offsets set_theano_shared_structure hands over agree: the last entry of the
\* cumulative array of the series, len_series_i, is the last entry of the
\* cumulative array of the surfaces, npf, both the number of interface points
\* less the number of surfaces, and the entry after k series is the number of
\* points of those series less the number of their surfaces.
C29_OffsetsPartitionPairs ==
    [][(/\ set_theano_shared_structure
        /\ Populated(interfaces_df)
        /\ Len(interfaces_df) > 0
        /\ \E order \in ValueCountOrders :
              structure = StructureOf(interfaces_df, orientations_df, order))
          => /\ err' = "ok"
             /\ Last(returned'.len_series_i) = Last(returned'.npf)
             /\ Last(returned'.npf)
                   = Len(interfaces_df) - Cardinality(SeriesSurfacePairs(interfaces_df))
             /\ \A k \in 1..(Len(returned'.len_series_i) - 1) :
                   returned'.len_series_i[k + 1] = RestPoints(interfaces_df, k)]_vars

-----------------------------------------------------------------------------
(* Properties of the modifications *)

\* after is before with the properties of kwargs written to the rows named
\* in idx: the rows outside idx, the number of rows, and the other columns of
\* Interfaces of the rows in idx are kept
OnlyGivenChanged(before, after, idx, kwargs) ==
    /\ Len(after) = Len(before)
    /\ \A i \in DOMAIN before :
          /\ after[i].index = before[i].index
          /\ before[i].index \notin idx => after[i] = before[i]
          /\ before[i].index \in idx
                => \A k \in {"X", "Y", "Z", "surface"} :
                      after[i][k] = IF k \in DOMAIN kwargs THEN kwargs[k] ELSE before[i][k]

\* C27: modify_interface and modify_orientation accept a call exactly when
\* every label of idx is in the table, which may hold other rows; an accepted
\* call writes the given properties to the rows of idx and keeps every other
\* row and the number of rows; a call naming a label the table does not have
\* is rejected and the table is kept.
C27_ModifyAcceptsExistingRows ==
    [][/\ \A idx \in LabelInputs, kwargs \in InterfaceKwargs :
             modify_interface(idx, kwargs)
                => /\ err' = "ok" <=> idx \subseteq Range(Index(interfaces_df))
                   /\ err' = "ok"
                         => OnlyGivenChanged(interfaces_df, interfaces_df', idx, kwargs)
                   /\ err' # "ok" => interfaces_df' = interfaces_df
       /\ \A idx \in LabelInputs, kwargs \in OrientationKwargs :
             modify_orientation(ListIdx(idx), kwargs)
                => /\ err' = "ok" <=> idx \subseteq Range(Index(orientations_df))
                   /\ err' = "ok"
                         => OnlyGivenChanged(orientations_df, orientations_df', idx, kwargs)
                   /\ err' # "ok" => orientations_df' = orientations_df]_vars

-----------------------------------------------------------------------------
(* Properties of the series of the surfaces after add_formation *)

\* the series of the surface of that name in the catalog
SeriesOfFormation(fdf, name) == fdf[PosOf(FormationColumn(fdf), name)].series

\* C30: add_formation keeps the series of the surfaces the catalog already
\* has: a surface mapped to a series of the Series index is in that series
\* after a later add_formation, and only the surfaces added by the call get
\* the first series.
C30_AddFormationKeepsMapping ==
    [][\A n \in {"a", "b"} :
          (/\ add_formation(<<n>>)
           /\ err' = "ok"
           /\ IsUnique(FormationColumn(formations_df)))
             => \A i \in DOMAIN formations_df :
                   Contains(Index(series_df), formations_df[i].series)
                      => /\ Contains(FormationColumn(formations_df'),
                                     formations_df[i].formation)
                         /\ SeriesOfFormation(formations_df', formations_df[i].formation)
                               = formations_df[i].series]_vars

====
